---- MODULE Spec2Model ----
(***************************************************************************)
(* SessionProbe: the bounded concurrent probe engine of run/processURLs,   *)
(* the response classifier checkURL/filterResponseByLengthAndRegex and the *)
(* report writer writeToFile.                                              *)
(*                                                                         *)
(* The scheduling loop (the goroutine that executes run) and one worker    *)
(* goroutine per URL are the processes; every step that touches shared     *)
(* state (semaphore channel, wait group, mutex, result map, progress       *)
(* counter) or the network is an action of its own.                        *)
(***************************************************************************)
EXTENDS Integers, Sequences, FiniteSets, TLC

(* ------------------------------ bounds -------------------------------- *)

\* largest value of the --threads flag that is explored
MaxThreads == 2

\* longest response body (in bytes) that the responder returns
MaxBodyLen == 2

(* ------------------------------ inputs -------------------------------- *)

\* the lines of the URLs file of the concurrent specification, as byte
\* strings ("/a" and "/b"), listed in lexicographic order
URLList == <<(<<47, 97>>), (<<47, 98>>)>>

URLS == {URLList[i] : i \in 1..Len(URLList)}

\* status codes the responder answers with
StatusCodes == {200, 302, 404}

\* the bytes response bodies are made of
Bytes == {97, 98}

\* every byte sequence of length 0..n
RECURSIVE SeqsUpTo(_)
SeqsUpTo(n) ==
    IF n = 0 THEN {<<>>}
    ELSE LET shorter == SeqsUpTo(n - 1)
         IN  shorter \cup {Append(s, b) : s \in {t \in shorter : Len(t) = n - 1}, b \in Bytes}

Bodies == SeqsUpTo(MaxBodyLen)

\* compiledRegex is nil when --filter-regex is empty
NoRegex == [kind |-> "nil"]

\* the compiled expressions explored: a literal byte string (searched
\* anywhere in the body, as regexp.Match is unanchored) and `.*`
Regexes ==
    {[kind |-> "lit", lit |-> s] : s \in Bodies \ {<<>>}} \cup {[kind |-> "any"]}

\* regexp.Regexp.Match(bodyBytes)
Match(re, bodyBytes) ==
    IF re.kind = "any" THEN TRUE
    ELSE \E i \in 1..(Len(bodyBytes) - Len(re.lit) + 1) :
            SubSeq(bodyBytes, i, i + Len(re.lit) - 1) = re.lit

(* --------------------------- the classifier --------------------------- *)

\* the classifier with a fault: the regex rule is applied before the length rule
filter_RegexFirst(statusCode, bodyBytes, regex, excluded) ==
    LET length == Len(bodyBytes)
    IN  IF regex = NoRegex THEN <<statusCode, length, TRUE>>
        ELSE IF ~Match(regex, bodyBytes) THEN <<statusCode, length, TRUE>>
        ELSE IF length \in excluded THEN <<statusCode, length, FALSE>>
        ELSE <<statusCode, length, FALSE>>

\* the classifier with a fault: the regex selects the responses to keep
filter_InclusionFilter(statusCode, bodyBytes, regex, excluded) ==
    LET length == Len(bodyBytes)
    IN  IF length \in excluded THEN <<statusCode, length, FALSE>>
        ELSE IF regex = NoRegex THEN <<statusCode, length, TRUE>>
        ELSE IF Match(regex, bodyBytes) THEN <<statusCode, length, TRUE>>
        ELSE <<statusCode, length, FALSE>>

\* the classifier with a fault: a response that is not included is returned
\* like a failed probe, without its status code and length
filter_ZeroWhenExcluded(statusCode, bodyBytes, regex, excluded) ==
    LET length == Len(bodyBytes)
    IN  IF length \in excluded THEN <<0, 0, FALSE>>
        ELSE IF regex = NoRegex THEN <<statusCode, length, TRUE>>
        ELSE IF ~Match(regex, bodyBytes) THEN <<statusCode, length, TRUE>>
        ELSE <<0, 0, FALSE>>

filterResponseByLengthAndRegex(statusCode, bodyBytes, regex, excluded) ==
    LET length == Len(bodyBytes)
    IN  IF length \in excluded THEN <<statusCode, length, FALSE>>
        ELSE IF regex = NoRegex THEN <<statusCode, length, TRUE>>
        ELSE IF ~Match(regex, bodyBytes) THEN <<statusCode, length, TRUE>>
        ELSE <<statusCode, length, FALSE>>

(* ------------------- what the network does to a task ------------------ *)

\* http.NewRequest fails
ReqErr == [kind |-> "reqErr"]
\* client.Do returns an error (DNS, refused, TLS, 10 s timeout)
HttpErr == [kind |-> "httpErr"]
\* a response arrives but io.ReadAll on its body fails
BodyErr(s) == [kind |-> "bodyErr", status |-> s]
\* a response arrives and its body is read
Resp(s, b) == [kind |-> "resp", status |-> s, body |-> b]

\* the server never answers
Hang == [kind |-> "hang"]

Outcomes ==
    {ReqErr, HttpErr} \cup {BodyErr(s) : s \in StatusCodes}
        \cup {Resp(s, b) : s \in StatusCodes, b \in Bodies}


(* ----------------------------- the methods ---------------------------- *)

\* no --check-* flag is set
NoMethodFlags ==
    [all |-> FALSE, post |-> FALSE, put |-> FALSE, patch |-> FALSE,
     delete |-> FALSE, options |-> FALSE]

\* every setting of the six --check-* flags
AllMethodFlags ==
    [all : BOOLEAN, post : BOOLEAN, put : BOOLEAN, patch : BOOLEAN,
     delete : BOOLEAN, options : BOOLEAN]

\* the --check-* flags explored by the concurrent specification
MethodFlagSets ==
    {NoMethodFlags,
     [all |-> FALSE, post |-> TRUE, put |-> FALSE, patch |-> FALSE,
      delete |-> FALSE, options |-> FALSE]}

\* getMethods with a fault: --check-all appends its five methods after those
\* of the single flags
getMethods_AllAppended(f) ==
    <<"GET">>
        \o (IF f.post THEN <<"POST">> ELSE <<>>)
        \o (IF f.put THEN <<"PUT">> ELSE <<>>)
        \o (IF f.patch THEN <<"PATCH">> ELSE <<>>)
        \o (IF f.delete THEN <<"DELETE">> ELSE <<>>)
        \o (IF f.options THEN <<"OPTIONS">> ELSE <<>>)
        \o (IF f.all THEN <<"POST", "PUT", "PATCH", "DELETE", "OPTIONS">> ELSE <<>>)

\* getMethods() under the --check-* flags f
getMethods(f) ==
    <<"GET">>
        \o (IF f.all \/ f.post THEN <<"POST">> ELSE <<>>)
        \o (IF f.all \/ f.put THEN <<"PUT">> ELSE <<>>)
        \o (IF f.all \/ f.patch THEN <<"PATCH">> ELSE <<>>)
        \o (IF f.all \/ f.delete THEN <<"DELETE">> ELSE <<>>)
        \o (IF f.all \/ f.options THEN <<"OPTIONS">> ELSE <<>>)

Range(s) == {s[i] : i \in 1..Len(s)}

(* ------------------------- the flags and the setup -------------------- *)

\* values of the --urls flag: not given, a readable file, a file that
\* os.Open cannot open
UrlsFlags == {"", "urls.txt", "missing.txt"}

\* os.Open(urls) succeeds
OpenSucceeds(path) == path = "urls.txt"

\* values of the --proxy flag: not given, a proxy that accepts connections,
\* one that does not, and a string that neturl.Parse rejects
Proxies == {"", "http://up:8080", "http://down:8080", "://bad"}

\* neturl.Parse(proxy) succeeds
ProxyParses(p) == p # "://bad"

\* net.DialTimeout("tcp", proxyURL.Host, 5*time.Second) succeeds
ProxyDials(p) == p = "http://up:8080"

\* checkProxyReachability with a fault: a failed connection is only logged
checkProxyReachability_DialIgnored(p) ==
    IF p # ""
    THEN IF ~ProxyParses(p) THEN "exit" ELSE "return"
    ELSE "return"

\* checkProxyReachability(proxy): "exit" stands for os.Exit(1), "return"
\* for a normal return
checkProxyReachability(p) ==
    IF p # ""
    THEN IF ~ProxyParses(p) THEN "exit"
         ELSE IF ~ProxyDials(p) THEN "exit"
         ELSE "return"
    ELSE "return"

\* --filter-regex not given
EmptyRegexFlag == [kind |-> "empty"]

\* a --filter-regex that regexp.Compile rejects
InvalidRegex == [kind |-> "invalid"]

\* regexp.Compile with a fault: no pattern is rejected
CompileFails_Never(re) == FALSE

\* regexp.Compile(filterRegex) returns an error
CompileFails(re) == re = InvalidRegex

\* strings.HasSuffix(str, suffix)
HasSuffix(str, suffix) ==
    /\ Len(str) >= Len(suffix)
    /\ SubSeq(str, Len(str) - Len(suffix) + 1, Len(str)) = suffix

\* ".css" and ".js"
DotCSS == <<46, 99, 115, 115>>
DotJS == <<46, 106, 115>>

\* the part of a URL string before its query string or fragment: the prefix
\* that ends before the first "?" or "#"
RECURSIVE PathOf(_)
PathOf(url) ==
    IF url = <<>> THEN <<>>
    ELSE IF Head(url) \in {63, 35} THEN <<>>
    ELSE <<Head(url)>> \o PathOf(Tail(url))

\* the scanner loop with a fault: `break` in place of `continue`
RECURSIVE ScanLines_Break(_, _, _, _)
ScanLines_Break(seen, lines, css, js) ==
    IF lines = <<>> THEN seen
    ELSE LET url == Head(lines)
         IN  IF (css /\ HasSuffix(url, DotCSS)) \/ (js /\ HasSuffix(url, DotJS))
             THEN seen
             ELSE ScanLines_Break(seen \cup {url}, Tail(lines), css, js)

\* the scanner loop with a fault: either flag removes both suffixes
RECURSIVE ScanLines_AnyFlag(_, _, _, _)
ScanLines_AnyFlag(seen, lines, css, js) ==
    IF lines = <<>> THEN seen
    ELSE LET url == Head(lines)
         IN  IF (css \/ js) /\ (HasSuffix(url, DotCSS) \/ HasSuffix(url, DotJS))
             THEN ScanLines_AnyFlag(seen, Tail(lines), css, js)
             ELSE ScanLines_AnyFlag(seen \cup {url}, Tail(lines), css, js)

\* the scanner loop with a fault: the suffix is looked for at the end of the
\* path, before the query string or fragment
RECURSIVE ScanLines_PathSuffix(_, _, _, _)
ScanLines_PathSuffix(seen, lines, css, js) ==
    IF lines = <<>> THEN seen
    ELSE LET url == Head(lines)
         IN  IF \/ css /\ HasSuffix(PathOf(url), DotCSS)
                \/ js /\ HasSuffix(PathOf(url), DotJS)
             THEN ScanLines_PathSuffix(seen, Tail(lines), css, js)
             ELSE ScanLines_PathSuffix(seen \cup {url}, Tail(lines), css, js)

\* the scanner loop of readURLs over the lines that are left, with the map
\* filled so far (a map[string]bool whose values are all true: a set)
RECURSIVE ScanLines(_, _, _, _)
ScanLines(seen, lines, css, js) ==
    IF lines = <<>> THEN seen
    ELSE LET url == Head(lines)
         IN  IF (css /\ HasSuffix(url, DotCSS)) \/ (js /\ HasSuffix(url, DotJS))
             THEN ScanLines(seen, Tail(lines), css, js)
             ELSE ScanLines(seen \cup {url}, Tail(lines), css, js)

\* readURLs(file) under the flags ignoreCSS and ignoreJS
readURLs(lines, css, js) == ScanLines({}, lines, css, js)

\* the largest number of ";"-separated entries of a --headers flag explored
\* by the specification of the headers
MaxEntries == 3

\* the entries such a flag is made of: "Cookie:a", "Cookie: b", "cookie:c",
\* "X-Id:d", " X-Id : e:f " and "bad"
HeaderEntries ==
    { <<67, 111, 111, 107, 105, 101, 58, 97>>,
      <<67, 111, 111, 107, 105, 101, 58, 32, 98>>,
      <<99, 111, 111, 107, 105, 101, 58, 99>>,
      <<88, 45, 73, 100, 58, 100>>,
      <<32, 88, 45, 73, 100, 32, 58, 32, 101, 58, 102, 32>>,
      <<98, 97, 100>> }

\* the sequences of at most n entries
RECURSIVE EntriesUpTo(_)
EntriesUpTo(n) ==
    IF n = 0 THEN {<<>>}
    ELSE LET shorter == EntriesUpTo(n - 1)
         IN  shorter \cup {Append(f, e) : f \in {g \in shorter : Len(g) = n - 1}, e \in HeaderEntries}

\* the longest URLs file explored by the specification of readURLs
MaxLines == 3

\* the lines such a file is made of: "", "/a", "/a.css", "/a.js", "/a.css?v",
\* "/a.js#x" and "/a.css?.js"
FileLines ==
    { <<>>,
      <<47, 97>>,
      <<47, 97, 46, 99, 115, 115>>,
      <<47, 97, 46, 106, 115>>,
      <<47, 97, 46, 99, 115, 115, 63, 118>>,
      <<47, 97, 46, 106, 115, 35, 120>>,
      <<47, 97, 46, 99, 115, 115, 63, 46, 106, 115>> }

\* the files of at most n lines
RECURSIVE FilesUpTo(_)
FilesUpTo(n) ==
    IF n = 0 THEN {<<>>}
    ELSE LET shorter == FilesUpTo(n - 1)
         IN  shorter \cup {Append(f, l) : f \in {g \in shorter : Len(g) = n - 1}, l \in FileLines}

(* ------------------------------- state -------------------------------- *)

VARIABLES
    urls,             \* the --urls flag
    proxy,            \* the --proxy flag
    filterRegex,      \* the --filter-regex flag
    ignoreCSS,        \* the --ignore-css flag
    ignoreJS,         \* the --ignore-js flag
    headers,          \* the --headers flag
    methodFlags,      \* the --check-* flags
    fileLines,        \* the lines of the URLs file, as the scanner delivers them
    exitCode,         \* the exit status of the process, NoExit while it runs
    threads,          \* the --threads flag: capacity of the channel sem
    headersMap,       \* the map returned by parseHeaders, or the nil map
    urlsMap,          \* the deduplicated target set returned by readURLs
    methods,          \* the list returned by getMethods
    compiledRegex,    \* NoRegex or the compiled --filter-regex
    excludedLengths,  \* the set returned by parseLengths
    responder,        \* what the network does to each (method, url)
    mpc,              \* position of the goroutine that executes run
    remaining,        \* keys of urlsMap the range loop has not visited yet
    cur,              \* the loop variable url (a singleton, or {} outside the body)
    sem,              \* number of tokens in the channel sem
    wg,               \* the WaitGroup counter
    mutex,            \* the set holding the holder of urlStatusesMutex, or NoHolder
    urlStatuses,      \* map[int][]Result
    processedCount,   \* the progress counter
    wpc,              \* position of the worker goroutine of each url
    mi,               \* index into methods of each worker's loop
    ret,              \* each worker's (statusCode, length, matched)
    slice,            \* each worker's copy of urlStatuses[statusCode] inside append
    req,              \* the header of the request each worker built last
    probes,           \* history: how often checkURL ran for each (method, url)
    rets,             \* history: what checkURL returned for each (method, url)
    launched,         \* history: the urls in the order their workers were launched
    sent,             \* history: how many HTTP requests went out for each (method, url)
    releases,         \* history: how often each worker received from sem
    dones,            \* history: how often each worker called wg.Done
    shown,            \* history: how many progress lines were logged for each (method, url)
    life,             \* history: the stages each (method, url) went through inside checkURL and the worker
    report            \* the lines written to the output file

flags == <<urls, proxy, filterRegex, ignoreCSS, ignoreJS, headers, methodFlags, fileLines>>
config == <<flags, threads, headersMap, urlsMap, methods, compiledRegex, excludedLengths, responder>>
\* config without the two variables that run assigns before it dispatches
given == <<flags, threads, excludedLengths, responder>>
output == <<report, exitCode>>
sched == <<mpc, remaining, cur>>
shared == <<sem, wg, mutex, urlStatuses, processedCount>>
workers == <<wpc, mi, ret, slice, req>>
counters == <<sent, releases, dones>>
traces == <<shown, life>>
history == <<probes, rets, launched, counters, traces>>
vars == <<config, sched, shared, workers, history, output>>

NoHolder == {}
NoExit == -1
NoRet == <<-1, -1, FALSE>>

\* the (method, url) pairs of the run
Tasks == Range(methods) \X urlsMap

(* ------------------------------ checkURL ------------------------------ *)

\* the status codes with which a server redirects
RedirectCodes == {301, 302, 303, 307, 308}

\* the response carries a redirect
IsRedirect(o) == o.kind = "resp" /\ o.status \in RedirectCodes

\* what the server at the Location of a redirect answers
LocationResp == Resp(200, <<97, 98>>)

\* noRedirect with a fault: the function returns nil, so the client goes on
\* to the Location
noRedirect_Follow == "nil"

\* the value the CheckRedirect function of the client returns
noRedirect == "ErrUseLastResponse"

\* the number of HTTP requests client.Do sends when the server answers o
RequestsSent(o) == IF IsRedirect(o) /\ noRedirect = "nil" THEN 2 ELSE 1

\* the server does not answer
Hangs(o) == o.kind = "hang"

\* TimesOut with a fault: the client has no Timeout
TimesOut_Never(o) == FALSE

\* the Timeout of the client ends a request that is not answered
TimesOut(o) == Hangs(o)

\* what client.Do returns when the server answers o: the answer itself, the
\* timeout error when there is none, the answer of the Location when the
\* client follows a redirect
clientDo(o) ==
    IF Hangs(o) THEN HttpErr
    ELSE IF IsRedirect(o) /\ noRedirect = "nil" THEN LocationResp
    ELSE o

\* prepareHTTPRequest returns an error
prepareHTTPRequestFails(method, url) == responder[<<method, url>>].kind = "reqErr"

\* handleHTTPError(err, url): true exactly when client.Do returned an error
handleHTTPError(o) == o.kind = "httpErr"

\* readResponseBody returns an error
readResponseBodyFails(o) == o.kind = "bodyErr"

\* checkURL with a fault: a failed request is reported as a match
checkURL_ErrorsMatch(method, url) ==
    LET o == clientDo(responder[<<method, url>>])
    IN  IF prepareHTTPRequestFails(method, url) THEN <<0, 0, TRUE>>
        ELSE IF handleHTTPError(o) THEN <<0, 0, TRUE>>
        ELSE IF readResponseBodyFails(o) THEN <<o.status, 0, FALSE>>
        ELSE filterResponseByLengthAndRegex(o.status, o.body, compiledRegex, excludedLengths)

\* checkURL with a fault: after a failed body read the empty body is
\* classified like any other
checkURL_BodyErrClassified(method, url) ==
    LET o == clientDo(responder[<<method, url>>])
    IN  IF prepareHTTPRequestFails(method, url) THEN <<0, 0, FALSE>>
        ELSE IF handleHTTPError(o) THEN <<0, 0, FALSE>>
        ELSE IF readResponseBodyFails(o)
             THEN filterResponseByLengthAndRegex(o.status, <<>>, compiledRegex, excludedLengths)
        ELSE filterResponseByLengthAndRegex(o.status, o.body, compiledRegex, excludedLengths)

checkURL(method, url) ==
    LET o == clientDo(responder[<<method, url>>])
    IN  IF prepareHTTPRequestFails(method, url) THEN <<0, 0, FALSE>>
        ELSE IF handleHTTPError(o) THEN <<0, 0, FALSE>>
        ELSE IF readResponseBodyFails(o) THEN <<o.status, 0, FALSE>>
        ELSE filterResponseByLengthAndRegex(o.status, o.body, compiledRegex, excludedLengths)

(* ------------------------ the result map (Go map) --------------------- *)

\* urlStatuses[statusCode]: the nil slice when the key is absent
MapGet(m, k) == IF k \in DOMAIN m THEN m[k] ELSE <<>>

\* urlStatuses[statusCode] = v
MapPut(m, k, v) == [x \in DOMAIN m \cup {k} |-> IF x = k THEN v ELSE m[x]]

Result(method, url, length) == [Method |-> method, URL |-> url, Length |-> length]

(* ------------------------------ the headers --------------------------- *)

\* the nil map, and the empty http.Header of a new request
NilMap == <<>>

\* sep occurs in s at position i
OccursAt(s, sep, i) == i + Len(sep) - 1 <= Len(s) /\ SubSeq(s, i, i + Len(sep) - 1) = sep

\* strings.Index(s, sep) + 1: the position of the first sep in s, 0 if none
Index(s, sep) ==
    IF \E i \in 1..Len(s) : OccursAt(s, sep, i)
    THEN CHOOSE i \in 1..Len(s) : OccursAt(s, sep, i) /\ \A j \in 1..(i - 1) : ~OccursAt(s, sep, j)
    ELSE 0

\* strings.SplitN(s, sep, n) for a non-empty sep and n > 0
RECURSIVE SplitN(_, _, _)
SplitN(s, sep, n) ==
    IF n = 1 \/ Index(s, sep) = 0 THEN <<s>>
    ELSE <<SubSeq(s, 1, Index(s, sep) - 1)>>
            \o SplitN(SubSeq(s, Index(s, sep) + Len(sep), Len(s)), sep, n - 1)

\* strings.Split(s, sep) for a non-empty sep
Split(s, sep) == SplitN(s, sep, Len(s) + 1)

\* strings.Join(elems, sep)
RECURSIVE Join(_, _)
Join(elems, sep) ==
    IF elems = <<>> THEN <<>>
    ELSE IF Len(elems) = 1 THEN elems[1]
    ELSE elems[1] \o sep \o Join(Tail(elems), sep)

\* the ASCII white space strings.TrimSpace removes
Space == {9, 10, 11, 12, 13, 32}

\* strings.TrimSpace(s)
RECURSIVE TrimSpace(_)
TrimSpace(s) ==
    IF s = <<>> THEN s
    ELSE IF Head(s) \in Space THEN TrimSpace(Tail(s))
    ELSE IF s[Len(s)] \in Space THEN TrimSpace(SubSeq(s, 1, Len(s) - 1))
    ELSE s

\* ";", ":", "; " and "Cookie"
Semicolon == <<59>>
Colon == <<58>>
SemicolonSpace == <<59, 32>>
CookieKey == <<67, 111, 111, 107, 105, 101>>

\* the loop of parseHeaders with a fault: a value replaces the values its
\* name already has
RECURSIVE ParsePairs_Overwrite(_, _)
ParsePairs_Overwrite(headerMap, pairs) ==
    IF pairs = <<>> THEN headerMap
    ELSE LET parts == SplitN(Head(pairs), Colon, 2)
         IN  IF Len(parts) # 2 THEN ParsePairs_Overwrite(headerMap, Tail(pairs))
             ELSE LET key == TrimSpace(parts[1])
                      value == TrimSpace(parts[2])
                  IN  ParsePairs_Overwrite(MapPut(headerMap, key, <<value>>), Tail(pairs))

\* the loop of parseHeaders with a fault: the pair is split at every ":"
RECURSIVE ParsePairs_SplitAll(_, _)
ParsePairs_SplitAll(headerMap, pairs) ==
    IF pairs = <<>> THEN headerMap
    ELSE LET parts == Split(Head(pairs), Colon)
         IN  IF Len(parts) # 2 THEN ParsePairs_SplitAll(headerMap, Tail(pairs))
             ELSE LET key == TrimSpace(parts[1])
                      value == TrimSpace(parts[2])
                  IN  ParsePairs_SplitAll(MapPut(headerMap, key, Append(MapGet(headerMap, key), value)),
                                          Tail(pairs))

\* the loop of parseHeaders with a fault: a pair without ":" ends the loop
RECURSIVE ParsePairs_StopAtMalformed(_, _)
ParsePairs_StopAtMalformed(headerMap, pairs) ==
    IF pairs = <<>> THEN headerMap
    ELSE LET parts == SplitN(Head(pairs), Colon, 2)
         IN  IF Len(parts) # 2 THEN headerMap
             ELSE LET key == TrimSpace(parts[1])
                      value == TrimSpace(parts[2])
                  IN  ParsePairs_StopAtMalformed(
                          MapPut(headerMap, key, Append(MapGet(headerMap, key), value)), Tail(pairs))

\* the loop of parseHeaders over the pairs that are left, with the map filled
\* so far
RECURSIVE ParsePairs(_, _)
ParsePairs(headerMap, pairs) ==
    IF pairs = <<>> THEN headerMap
    ELSE LET parts == SplitN(Head(pairs), Colon, 2)
         IN  IF Len(parts) # 2 THEN ParsePairs(headerMap, Tail(pairs))
             ELSE LET key == TrimSpace(parts[1])
                      value == TrimSpace(parts[2])
                  IN  ParsePairs(MapPut(headerMap, key, Append(MapGet(headerMap, key), value)),
                                 Tail(pairs))

\* parseHeaders with a fault: the header string is not split at ";", it is
\* one pair
parseHeaders_OnePair(h) == ParsePairs(NilMap, <<h>>)

\* parseHeaders(headers)
parseHeaders(h) == ParsePairs(NilMap, Split(h, Semicolon))

\* the bytes of a header field name: letters, digits and the other token
\* characters
TokenBytes ==
    (48..57) \cup (65..90) \cup (97..122)
        \cup {33, 35, 36, 37, 38, 39, 42, 43, 45, 46, 94, 95, 96, 124, 126}

\* the loop of textproto.CanonicalMIMEHeaderKey: the first letter and every
\* letter after a "-" in upper case, the others in lower case
RECURSIVE Canonicalize(_, _)
Canonicalize(s, upper) ==
    IF s = <<>> THEN <<>>
    ELSE LET c == IF upper /\ Head(s) \in 97..122 THEN Head(s) - 32
                  ELSE IF ~upper /\ Head(s) \in 65..90 THEN Head(s) + 32
                  ELSE Head(s)
         IN  <<c>> \o Canonicalize(Tail(s), c = 45)

\* textproto.CanonicalMIMEHeaderKey(s): a key with a byte that is not a token
\* byte is returned unchanged
CanonicalMIMEHeaderKey(s) ==
    IF \A i \in 1..Len(s) : s[i] \in TokenBytes THEN Canonicalize(s, TRUE) ELSE s

\* req.Header.Set(key, value)
HeaderSet(h, key, value) == MapPut(h, CanonicalMIMEHeaderKey(key), <<value>>)

\* req.Header.Add(key, value)
HeaderAdd(h, key, value) ==
    MapPut(h, CanonicalMIMEHeaderKey(key), Append(MapGet(h, CanonicalMIMEHeaderKey(key)), value))

\* `for _, value := range values { req.Header.Add(key, value) }`
RECURSIVE AddValues(_, _, _)
AddValues(h, key, values) ==
    IF values = <<>> THEN h
    ELSE AddValues(HeaderAdd(h, key, Head(values)), key, Tail(values))

\* the loop `for key, values := range headers` of prepareHTTPRequest over the
\* keys that are left, in the order the map iteration delivers them
RECURSIVE RangeHeaders(_, _, _)
RangeHeaders(h, hm, order) ==
    IF order = <<>> THEN h
    ELSE LET key == Head(order)
         IN  IF key = CookieKey
             THEN RangeHeaders(HeaderSet(h, key, Join(hm[key], SemicolonSpace)), hm, Tail(order))
             ELSE RangeHeaders(AddValues(h, key, hm[key]), hm, Tail(order))

\* the header of the request prepareHTTPRequest returns when the map
\* iteration delivers the keys of headers in this order
prepareHTTPRequest(hm, order) == RangeHeaders(NilMap, hm, order)

(* --------------------------- the report writer ------------------------ *)

\* every order in which `for k := range urlStatuses` may deliver the keys of S
Orders(S) == {s \in [1..Cardinality(S) -> S] : Range(s) = S}

RECURSIVE InsertInt(_, _)
InsertInt(sorted, x) ==
    IF sorted = <<>> THEN <<x>>
    ELSE IF x <= Head(sorted) THEN <<x>> \o sorted
    ELSE <<Head(sorted)>> \o InsertInt(Tail(sorted), x)

\* SortInts with a fault: the keys stay in the order the range delivered them
SortInts_NoSort(keys) == keys

\* sort.Ints(keys)
RECURSIVE SortInts(_)
SortInts(keys) ==
    IF keys = <<>> THEN <<>> ELSE InsertInt(SortInts(Tail(keys)), Head(keys))

\* "Responses with Status Code: %d\n\n": the header line and an empty line
HeaderLine(k) == <<"Responses with Status Code:", k>>
BlankLine == <<>>
\* "| %s | %s => Length: %d\n"
ResultLine(r) == <<"|", r.Method, "|", r.URL, "=> Length:", r.Length>>

ResultLines(results) == [i \in 1..Len(results) |-> ResultLine(results[i])]

RECURSIVE WriteGroups(_, _)
WriteGroups(m, keys) ==
    IF keys = <<>> THEN <<>>
    ELSE <<HeaderLine(Head(keys)), BlankLine>> \o ResultLines(m[Head(keys)]) \o <<BlankLine>>
            \o WriteGroups(m, Tail(keys))

\* writeToFile(urlStatuses, outFile); rangeOrder is the order in which the
\* range over the map delivered its keys
writeToFile(m, rangeOrder) == WriteGroups(m, SortInts(rangeOrder))

(* ------------------------------- Init --------------------------------- *)

\* the filter configurations explored by the concurrent specification
FilterConfigs ==
    {<<EmptyRegexFlag, {}>>, <<[kind |-> "lit", lit |-> <<98>>], {}>>, <<EmptyRegexFlag, {1}>>}

\* the network behaviours explored by the concurrent specification
MainOutcomes ==
    {ReqErr, HttpErr, BodyErr(200), Resp(200, <<97>>), Resp(404, <<97, 98>>)}

\* the URLs files explored by the concurrent specification: one for every
\* subset of URLS
MainFiles == {<<>>, <<URLList[1]>>, <<URLList[2]>>, URLList}

\* the (method, url) pairs that run will probe if it gets to dispatch
FutureTasks == Range(getMethods(methodFlags)) \X readURLs(fileLines, ignoreCSS, ignoreJS)

\* main has parsed the flags and calls run: nothing is read, made or
\* launched yet
Fresh ==
    /\ mpc = "start"
    /\ exitCode = NoExit
    /\ headersMap = NilMap
    /\ urlsMap = {}
    /\ methods = <<>>
    /\ compiledRegex = NoRegex
    /\ remaining = {}
    /\ cur = {}
    /\ sem = 0
    /\ wg = 0
    /\ mutex = NoHolder
    /\ urlStatuses = <<>>
    /\ processedCount = 0
    /\ wpc = <<>>
    /\ mi = <<>>
    /\ ret = <<>>
    /\ slice = <<>>
    /\ req = <<>>
    /\ probes = <<>>
    /\ rets = <<>>
    /\ launched = <<>>
    /\ sent = <<>>
    /\ releases = <<>>
    /\ dones = <<>>
    /\ shown = <<>>
    /\ life = <<>>
    /\ report = <<>>

\* every combination of the --urls, --proxy and --filter-regex flags, each
\* with a small run behind it: both urls of URLList on one thread, GET only,
\* every response a 200 with a one-byte body
Setups ==
    /\ urls \in UrlsFlags
    /\ proxy \in Proxies
    /\ filterRegex \in {EmptyRegexFlag, InvalidRegex, [kind |-> "lit", lit |-> <<98>>]}
    /\ ignoreCSS = TRUE
    /\ ignoreJS = TRUE
    /\ headers = <<>>
    /\ fileLines = URLList
    /\ threads = 1
    /\ methodFlags = NoMethodFlags
    /\ excludedLengths = {}
    /\ responder = [t \in FutureTasks |-> Resp(200, <<97>>)]
    /\ Fresh

\* the concurrent runs: a readable URLs file, no proxy, and every thread
\* count, target set, method set, filter and network behaviour explored
Runs ==
    /\ urls = "urls.txt"
    /\ proxy = ""
    /\ ignoreCSS = TRUE
    /\ ignoreJS = TRUE
    /\ headers = <<>>
    /\ fileLines \in MainFiles
    /\ threads \in 1..MaxThreads
    /\ methodFlags \in MethodFlagSets
    /\ \E fc \in FilterConfigs : filterRegex = fc[1] /\ excludedLengths = fc[2]
    /\ responder \in [FutureTasks -> MainOutcomes]
    /\ Fresh

Init == Runs \/ Setups

(* ----------------------- the scheduling goroutine ---------------------- *)

\* where run goes when a flag or file is unusable: Error(...) and return
AfterConfigError == "returned"

\* `if urls == ""`: Error, return; main returns
UrlsFlagMissing ==
    /\ mpc = "start"
    /\ urls = ""
    /\ mpc' = AfterConfigError
    /\ exitCode' = 0
    /\ UNCHANGED <<config, remaining, cur, shared, workers, history, report>>

\* `if urls == ""` is false; the Info lines follow, and parseHeaders if the
\* --headers flag is given
UrlsFlagGiven ==
    /\ mpc = "start"
    /\ urls # ""
    /\ headersMap' = IF headers # <<>> THEN parseHeaders(headers) ELSE NilMap
    /\ mpc' = "preflight"
    /\ UNCHANGED <<given, urlsMap, methods, compiledRegex, remaining, cur, shared, workers, history, output>>

\* `if proxy != "" { checkProxyReachability(proxy) }` returns
Preflight ==
    /\ mpc = "preflight"
    /\ proxy # "" => checkProxyReachability(proxy) = "return"
    /\ mpc' = "compile"
    /\ UNCHANGED <<config, remaining, cur, shared, workers, history, output>>

\* checkProxyReachability(proxy) calls os.Exit(1)
PreflightFails ==
    /\ mpc = "preflight"
    /\ proxy # ""
    /\ checkProxyReachability(proxy) = "exit"
    /\ mpc' = "exited"
    /\ exitCode' = 1
    /\ UNCHANGED <<config, remaining, cur, shared, workers, history, report>>

\* `if filterRegex != ""`: regexp.Compile succeeds, or there is no regex and
\* compiledRegex stays nil
CompileRegex ==
    /\ mpc = "compile"
    /\ ~CompileFails(filterRegex)
    /\ compiledRegex' = IF filterRegex = EmptyRegexFlag THEN NoRegex ELSE filterRegex
    /\ mpc' = "open"
    /\ UNCHANGED <<given, headersMap, urlsMap, methods, remaining, cur, shared, workers, history, output>>

\* regexp.Compile returns an error: Error, return; main returns
CompileRegexFails ==
    /\ mpc = "compile"
    /\ CompileFails(filterRegex)
    /\ mpc' = AfterConfigError
    /\ exitCode' = 0
    /\ UNCHANGED <<config, remaining, cur, shared, workers, history, report>>

\* os.Open(urls) succeeds; sem and wg are made
OpenFile ==
    /\ mpc = "open"
    /\ OpenSucceeds(urls)
    /\ mpc' = "read"
    /\ UNCHANGED <<config, remaining, cur, shared, workers, history, output>>

\* os.Open(urls) fails: Error, return; main returns
OpenFileFails ==
    /\ mpc = "open"
    /\ ~OpenSucceeds(urls)
    /\ mpc' = AfterConfigError
    /\ exitCode' = 0
    /\ UNCHANGED <<config, remaining, cur, shared, workers, history, report>>

\* urlsMap := readURLs(file); parseLengths; processURLs is entered and calls
\* getMethods, with no worker born and no pair probed
ReadURLs ==
    /\ mpc = "read"
    /\ urlsMap' = readURLs(fileLines, ignoreCSS, ignoreJS)
    /\ methods' = getMethods(methodFlags)
    /\ remaining' = urlsMap'
    /\ wpc' = [u \in urlsMap' |-> "unborn"]
    /\ mi' = [u \in urlsMap' |-> 1]
    /\ ret' = [u \in urlsMap' |-> NoRet]
    /\ slice' = [u \in urlsMap' |-> <<>>]
    /\ req' = [u \in urlsMap' |-> NilMap]
    /\ probes' = [t \in Range(methods') \X urlsMap' |-> 0]
    /\ rets' = [t \in Range(methods') \X urlsMap' |-> NoRet]
    /\ sent' = [t \in Range(methods') \X urlsMap' |-> 0]
    /\ releases' = [u \in urlsMap' |-> 0]
    /\ dones' = [u \in urlsMap' |-> 0]
    /\ shown' = [t \in Range(methods') \X urlsMap' |-> 0]
    /\ life' = [t \in Range(methods') \X urlsMap' |-> <<"Created">>]
    /\ mpc' = "loop"
    /\ UNCHANGED <<given, headersMap, compiledRegex, cur, shared, launched, output>>

\* `for url := range urls` delivers the next key (in any order); wg.Add(1)
WgAdd ==
    /\ mpc = "loop"
    /\ \E u \in remaining :
        /\ cur' = {u}
        /\ remaining' = remaining \ {u}
    /\ wg' = wg + 1
    /\ mpc' = "acquire"
    /\ UNCHANGED <<config, sem, mutex, urlStatuses, processedCount, workers, history, output>>

\* SemHasRoom with a fault: the send waits until no worker holds a slot
SemHasRoom_WaitsForAll == sem = 0

\* SemHasRoom with a fault: the channel is treated as unbounded
SemHasRoom_Unbounded == TRUE

\* a send on the buffered channel sem proceeds only while it is not full
SemHasRoom == sem < threads

\* sem <- true
SemAcquire ==
    /\ mpc = "acquire"
    /\ SemHasRoom
    /\ sem' = sem + 1
    /\ mpc' = "launch"
    /\ UNCHANGED <<config, remaining, cur, wg, mutex, urlStatuses, processedCount, workers, history, output>>

\* go func(url string) {...}(url)
GoLaunch ==
    /\ mpc = "launch"
    /\ \E u \in cur :
        /\ wpc' = [wpc EXCEPT ![u] = "prepare"]
        /\ mi' = [mi EXCEPT ![u] = 1]
        /\ launched' = Append(launched, u)
    /\ cur' = {}
    /\ mpc' = "loop"
    /\ UNCHANGED <<config, remaining, shared, ret, slice, req, probes, rets, counters, traces, output>>

\* the range loop is exhausted: processURLs returns urlStatuses to run
ProcessURLsReturn ==
    /\ mpc = "loop"
    /\ remaining = {}
    /\ mpc' = "wait"
    /\ UNCHANGED <<config, remaining, cur, shared, workers, history, output>>

\* WaitGroupZero with a fault: run does not wait for the workers
WaitGroupZero_NoWait == TRUE

\* wg.Wait() returns only when the counter is zero
WaitGroupZero == wg = 0

\* wg.Wait()
WgWait ==
    /\ mpc = "wait"
    /\ WaitGroupZero
    /\ mpc' = "create"
    /\ UNCHANGED <<config, remaining, cur, shared, workers, history, output>>

\* os.Create(out) succeeds
OsCreate ==
    /\ mpc = "create"
    /\ mpc' = "write"
    /\ UNCHANGED <<config, remaining, cur, shared, workers, history, output>>

\* os.Create(out) fails: Error(...) and return; main returns
OsCreateFails ==
    /\ mpc = "create"
    /\ mpc' = "failed"
    /\ exitCode' = 0
    /\ UNCHANGED <<config, remaining, cur, shared, workers, history, report>>

\* writeToFile(urlStatuses, outFile), then run and main return
WriteToFile ==
    /\ mpc = "write"
    /\ \E rangeOrder \in Orders(DOMAIN urlStatuses) :
        report' = writeToFile(urlStatuses, rangeOrder)
    /\ mpc' = "done"
    /\ exitCode' = 0
    /\ UNCHANGED <<config, remaining, cur, shared, workers, history>>

(* ------------------------- the worker goroutines ----------------------- *)

\* the method of the current iteration of `for _, method := range methods`
Method(u) == methods[mi[u]]

\* AfterCheckURL with a fault: a failed probe is tried again
AfterCheckURL_Retry(r) ==
    IF r[3] THEN "lock" ELSE IF r = <<0, 0, FALSE>> THEN "prepare" ELSE "count"

\* where the worker goes once checkURL has returned r: `if matched {`
AfterCheckURL(r) == IF r[3] THEN "lock" ELSE "count"

\* the stages checkURL(method, url) goes through up to client.Do: the request
\* is built, or prepareHTTPRequest returns an error and checkURL returns
\* 0, 0, false at once
StagesOfPrepare(method, url) ==
    IF prepareHTTPRequestFails(method, url) THEN <<"Failed", "Skipped">> ELSE <<"Built">>

\* the stages checkURL(method, url) goes through from client.Do on: the
\* request goes out; an error of client.Do ends the task; a response whose
\* body cannot be read is returned with matched = false without being
\* classified; any other response is classified, and one that does not
\* match is not appended
StagesOfDo(method, url) ==
    LET o == clientDo(responder[<<method, url>>])
    IN  <<"Sent">> \o
        (IF handleHTTPError(o) THEN <<"Failed", "Skipped">>
         ELSE IF readResponseBodyFails(o) THEN <<"Succeeded", "Dropped">>
         ELSE IF checkURL(method, url)[3] THEN <<"Succeeded", "Classified">>
         ELSE <<"Succeeded", "Classified", "Dropped">>)

\* checkURL up to client.Do: createHTTPClient and prepareHTTPRequest; a
\* request that cannot be built makes checkURL return at once
PrepareRequest(u) ==
    /\ wpc[u] = "prepare"
    /\ probes' = [probes EXCEPT ![<<Method(u), u>>] = @ + 1]
    /\ IF prepareHTTPRequestFails(Method(u), u)
       THEN /\ ret' = [ret EXCEPT ![u] = checkURL(Method(u), u)]
            /\ rets' = [rets EXCEPT ![<<Method(u), u>>] = checkURL(Method(u), u)]
            /\ wpc' = [wpc EXCEPT ![u] = AfterCheckURL(checkURL(Method(u), u))]
            /\ UNCHANGED req
       ELSE /\ \E order \in Orders(DOMAIN headersMap) :
                  req' = [req EXCEPT ![u] = prepareHTTPRequest(headersMap, order)]
            /\ wpc' = [wpc EXCEPT ![u] = "inflight"]
            /\ UNCHANGED <<ret, rets>>
    /\ life' = [life EXCEPT ![<<Method(u), u>>] = @ \o StagesOfPrepare(Method(u), u)]
    /\ UNCHANGED <<config, sched, shared, mi, slice, launched, counters, shown, output>>

\* client.Do returns (a response, an error, or the timeout error when the
\* server does not answer), the body is read and classified, checkURL returns
ClientDo(u) ==
    /\ wpc[u] = "inflight"
    /\ Hangs(responder[<<Method(u), u>>]) => TimesOut(responder[<<Method(u), u>>])
    /\ ret' = [ret EXCEPT ![u] = checkURL(Method(u), u)]
    /\ rets' = [rets EXCEPT ![<<Method(u), u>>] = checkURL(Method(u), u)]
    /\ wpc' = [wpc EXCEPT ![u] = AfterCheckURL(checkURL(Method(u), u))]
    /\ sent' = [sent EXCEPT ![<<Method(u), u>>] = @ + RequestsSent(responder[<<Method(u), u>>])]
    /\ life' = [life EXCEPT ![<<Method(u), u>>] = @ \o StagesOfDo(Method(u), u)]
    /\ UNCHANGED <<config, sched, shared, mi, slice, req, probes, launched, releases, dones, shown, output>>

\* MutexFree with a fault: the append is not guarded
MutexFree_NoMutex == TRUE

\* Lock() proceeds only while no goroutine holds the mutex
MutexFree == mutex = NoHolder

\* urlStatusesMutex.Lock()
MutexLock(u) ==
    /\ wpc[u] = "lock"
    /\ MutexFree
    /\ mutex' = {u}
    /\ wpc' = [wpc EXCEPT ![u] = "read"]
    /\ UNCHANGED <<config, sched, sem, wg, urlStatuses, processedCount, mi, ret, slice, req, history, output>>

\* the right-hand side of the append statement reads urlStatuses[statusCode]
AppendRead(u) ==
    /\ wpc[u] = "read"
    /\ slice' = [slice EXCEPT ![u] = MapGet(urlStatuses, ret[u][1])]
    /\ wpc' = [wpc EXCEPT ![u] = "write"]
    /\ UNCHANGED <<config, sched, shared, mi, ret, req, history, output>>

\* append with a fault: the new element replaces the slice
append_Replace(s, r) == <<r>>

\* append with a fault: the slice comes back without the new element
append_Lost(s, r) == s

\* the builtin append(s, r)
append(s, r) == Append(s, r)

\* urlStatuses[statusCode] = append(..., Result{method, url, length})
AppendWrite(u) ==
    /\ wpc[u] = "write"
    /\ urlStatuses' =
         MapPut(urlStatuses, ret[u][1], append(slice[u], Result(Method(u), u, ret[u][2])))
    /\ slice' = [slice EXCEPT ![u] = <<>>]
    /\ wpc' = [wpc EXCEPT ![u] = "unlock"]
    /\ life' = [life EXCEPT ![<<Method(u), u>>] = Append(@, "Recorded")]
    /\ UNCHANGED <<config, sched, sem, wg, mutex, processedCount, mi, ret, req, probes, rets, launched, counters, shown, output>>

\* AfterUnlock with a fault: the worker goes on without unlocking
AfterUnlock_StillHeld(u) == {u}

\* the holder of the mutex after the Unlock() of u
AfterUnlock(u) == NoHolder

\* urlStatusesMutex.Unlock()
MutexUnlock(u) ==
    /\ wpc[u] = "unlock"
    /\ mutex' = AfterUnlock(u)
    /\ wpc' = [wpc EXCEPT ![u] = "count"]
    /\ UNCHANGED <<config, sched, sem, wg, urlStatuses, processedCount, mi, ret, slice, req, history, output>>

\* MoreMethods with a fault: a worker whose probe failed gives up its url
MoreMethods_StopOnError(u) == mi[u] < Len(methods) /\ ret[u] # <<0, 0, FALSE>>

\* the range over methods has another element after the current one
MoreMethods(u) == mi[u] < Len(methods)

\* LoopEnd with a fault: the slot is given back and wg.Done is called at the
\* end of the function body, which a worker whose last probe did not match
\* leaves early
LoopEnd_LeakOnFailure(u) == IF ret[u][3] THEN "release" ELSE "exited"

\* where a worker goes when its loop over methods ends: to the deferred
\* function, whatever its probes returned
LoopEnd(u) == "release"

\* AddInt32 with a fault: every worker counts in a copy of its own and
\* stores that copy
AddInt32_OwnCopy(u) == mi[u]

\* the new value of processedCount after atomic.AddInt32(&processedCount, 1)
AddInt32(u) == processedCount + 1

\* atomic.AddInt32(&processedCount, 1), the progress line (which logs what
\* it then reads from processedCount), and the next iteration of the loop
\* over methods (or its end, where the deferred function starts)
AddProcessed(u) ==
    /\ wpc[u] = "count"
    /\ processedCount' = AddInt32(u)
    /\ shown' = [shown EXCEPT ![<<Method(u), u>>] = @ + 1]
    /\ ret' = [ret EXCEPT ![u] = NoRet]
    /\ IF MoreMethods(u)
       THEN /\ mi' = [mi EXCEPT ![u] = @ + 1]
            /\ wpc' = [wpc EXCEPT ![u] = "prepare"]
       ELSE /\ mi' = mi
            /\ wpc' = [wpc EXCEPT ![u] = LoopEnd(u)]
    /\ UNCHANGED <<config, sched, sem, wg, mutex, urlStatuses, slice, req, probes, rets, launched, counters, life, output>>

\* deferred: <-sem
SemRelease(u) ==
    /\ wpc[u] = "release"
    /\ sem > 0
    /\ sem' = sem - 1
    /\ wpc' = [wpc EXCEPT ![u] = "wgdone"]
    /\ releases' = [releases EXCEPT ![u] = @ + 1]
    /\ UNCHANGED <<config, sched, wg, mutex, urlStatuses, processedCount, mi, ret, slice, req, probes, rets, launched, sent, dones, traces, output>>

\* deferred: wg.Done(); the goroutine ends
WgDone(u) ==
    /\ wpc[u] = "wgdone"
    /\ wg' = wg - 1
    /\ wpc' = [wpc EXCEPT ![u] = "exited"]
    /\ dones' = [dones EXCEPT ![u] = @ + 1]
    /\ UNCHANGED <<config, sched, sem, mutex, urlStatuses, processedCount, mi, ret, slice, req, probes, rets, launched, sent, releases, traces, output>>

(* --------------------------- the specification ------------------------ *)

Next ==
    \/ UrlsFlagMissing
    \/ UrlsFlagGiven
    \/ Preflight
    \/ PreflightFails
    \/ CompileRegex
    \/ CompileRegexFails
    \/ OpenFile
    \/ OpenFileFails
    \/ ReadURLs
    \/ WgAdd
    \/ SemAcquire
    \/ GoLaunch
    \/ ProcessURLsReturn
    \/ WgWait
    \/ OsCreate
    \/ OsCreateFails
    \/ WriteToFile
    \/ \E u \in urlsMap :
        \/ PrepareRequest(u)
        \/ ClientDo(u)
        \/ MutexLock(u)
        \/ AppendRead(u)
        \/ AppendWrite(u)
        \/ MutexUnlock(u)
        \/ AddProcessed(u)
        \/ SemRelease(u)
        \/ WgDone(u)

Spec == Init /\ [][Next]_vars

(* ------------- the classifier on all of its bounded inputs ------------ *)

\* one GET probe of one url on one thread, with the regex, the excluded
\* lengths and the response ranging over all the bounded values
InitFilter ==
    \/ /\ urls = "urls.txt"
       /\ proxy = ""
       /\ ignoreCSS = TRUE
       /\ ignoreJS = TRUE
       /\ headers = <<>>
       /\ fileLines = <<URLList[1]>>
       /\ threads = 1
       /\ methodFlags = NoMethodFlags
       /\ filterRegex \in {EmptyRegexFlag} \cup Regexes
       /\ excludedLengths \in SUBSET (0..MaxBodyLen)
       /\ responder \in [FutureTasks -> Outcomes]
       /\ Fresh
    \/ Setups

SpecFilter == InitFilter /\ [][Next]_vars

(* ------------------------------ properties ---------------------------- *)

\* workers that were launched on a semaphore token and have not yet executed
\* the deferred <-sem
SlotHolders ==
    {u \in urlsMap :
        wpc[u] \in {"prepare", "inflight", "lock", "read", "write", "unlock", "count", "release"}}

\* workers whose client.Do has not returned yet
InFlight == {u \in urlsMap : wpc[u] = "inflight"}

\* every worker has been launched and has ended
AllWorkersExited ==
    /\ mpc \in {"loop", "wait", "create", "write", "done", "failed"}
    /\ remaining = {}
    /\ cur = {}
    /\ \A u \in urlsMap : wpc[u] = "exited"

\* run is executing writeToFile or has executed it
WriterStarted == mpc \in {"write", "done"}

\* the network made the probe of t fail
Failing(t) == responder[t].kind \in {"reqErr", "httpErr", "bodyErr"}

\* checkURL has returned for t
Returned(t) == rets[t] # NoRet

\* the positions <<key, index>> of the result map that hold an entry of t
Entries(t) ==
    {p \in UNION {{<<k, i>> : i \in 1..Len(urlStatuses[k])} : k \in DOMAIN urlStatuses} :
        /\ urlStatuses[p[1]][p[2]].Method = t[1]
        /\ urlStatuses[p[1]][p[2]].URL = t[2]}

\* C1: the number of workers that hold a semaphore slot, and with it the
\* number of HTTP requests in flight, never exceeds the thread count
C1_BoundedConcurrency ==
    /\ Cardinality(SlotHolders) <= threads
    /\ Cardinality(InFlight) <= threads

\* the scheduling loop is blocked on the full semaphore while as many
\* requests as there are threads are in flight and a url is still waiting
C1_Witness ==
    /\ mpc = "acquire"
    /\ sem = threads
    /\ Cardinality(InFlight) = threads

\* C2: while the report is being written (or is written) every worker has
\* ended and every (method, url) pair has been probed and has returned, and
\* from then on the result map does not change any more
C2_ReportAfterWorkers ==
    /\ [](WriterStarted =>
            /\ AllWorkersExited
            /\ \A t \in Tasks : probes[t] = 1 /\ Returned(t))
    /\ [][WriterStarted => urlStatuses' = urlStatuses]_vars

\* a report is written from a map filled by two workers
C2_Witness ==
    /\ mpc = "done"
    /\ Cardinality(urlsMap) = 2
    /\ \A u \in urlsMap : \E m \in Range(methods) : Entries(<<m, u>>) # {}

\* C3: no pair is probed twice (a failed probe is not retried), and in a run
\* that reaches report generation checkURL ran exactly once for every pair of
\* methods x target set
C3_ExactlyOnce ==
    /\ \A t \in Tasks : probes[t] <= 1
    /\ WriterStarted => \A t \in Tasks : probes[t] = 1

\* report generation reached with two urls and two methods, one probe failed
C3_Witness ==
    /\ WriterStarted
    /\ Cardinality(Tasks) = 4
    /\ \E t \in Tasks : Failing(t) /\ probes[t] = 1

\* C4: after all workers finished the result map holds exactly one entry for
\* every pair whose checkURL returned included = true, under the returned
\* status code and with the returned length, and none for any other pair
C4_ExactlyTheIncluded ==
    AllWorkersExited =>
        \A t \in Tasks :
            IF rets[t][3]
            THEN /\ Cardinality(Entries(t)) = 1
                 /\ \A p \in Entries(t) :
                        /\ p[1] = rets[t][1]
                        /\ urlStatuses[p[1]][p[2]].Length = rets[t][2]
            ELSE Entries(t) = {}

\* two concurrent workers appended under the same status code, and another
\* pair was left out
C4_Witness ==
    /\ AllWorkersExited
    /\ threads = 2
    /\ \E k \in DOMAIN urlStatuses :
          \E i, j \in 1..Len(urlStatuses[k]) : urlStatuses[k][i].URL # urlStatuses[k][j].URL
    /\ \E t \in Tasks : Returned(t) /\ ~rets[t][3]

\* the network answered t with a response whose body could be read
Answered(t) == responder[t].kind = "resp"

\* C5: the classifier returns included = false whenever the byte length of
\* the body is in the excluded-length set, whatever the status code, the body
\* and the regex (absent, matching or not matching)
C5_LengthExclusionDominates ==
    \A t \in Tasks :
        (Returned(t) /\ Answered(t) /\ Len(responder[t].body) \in excludedLengths)
            => ~rets[t][3]

\* a body of excluded length was classified under a regex it does not match
C5_Witness ==
    \E t \in Tasks :
        /\ Returned(t)
        /\ Answered(t)
        /\ Len(responder[t].body) \in excludedLengths
        /\ compiledRegex # NoRegex
        /\ ~Match(compiledRegex, responder[t].body)

\* C6: when the body length is not excluded, the classifier returns
\* included = true exactly when the regex is absent or the body does not
\* match it; with no regex and no excluded length everything is included
C6_RegexRule ==
    \A t \in Tasks :
        (Returned(t) /\ Answered(t) /\ Len(responder[t].body) \notin excludedLengths)
            => (rets[t][3] <=>
                    (compiledRegex = NoRegex \/ ~Match(compiledRegex, responder[t].body)))

\* a non-empty body that matches a literal regex was classified while some
\* other length is excluded
C6_Witness ==
    \E t \in Tasks :
        /\ Returned(t)
        /\ Answered(t)
        /\ excludedLengths # {}
        /\ Len(responder[t].body) \notin excludedLengths
        /\ compiledRegex # NoRegex
        /\ compiledRegex.kind = "lit"
        /\ Match(compiledRegex, responder[t].body)
        /\ ~rets[t][3]

\* the target set in the order of URLList
RECURSIVE TargetsInOrder(_)
TargetsInOrder(i) ==
    IF i > Len(URLList) THEN <<>>
    ELSE (IF URLList[i] \in urlsMap THEN <<URLList[i]>> ELSE <<>>) \o TargetsInOrder(i + 1)

\* the result map after the workers of the urls us ran one after the other,
\* each through the methods from index i on
RECURSIVE SequentialMap(_, _, _)
SequentialMap(m, us, i) ==
    IF us = <<>> THEN m
    ELSE IF i > Len(methods) THEN SequentialMap(m, Tail(us), 1)
    ELSE LET r == checkURL(methods[i], Head(us))
         IN  SequentialMap(
                IF r[3]
                THEN MapPut(m, r[1], Append(MapGet(m, r[1]), Result(methods[i], Head(us), r[2])))
                ELSE m,
                us, i + 1)

\* the report of the run of this target set, method set, filter and
\* responder in which the workers complete one after the other, in the
\* order of URLList
ReferenceReport ==
    LET m == SequentialMap(<<>>, TargetsInOrder(1), 1)
    IN  writeToFile(m, CHOOSE o \in Orders(DOMAIN m) : TRUE)

\* C7: runs over the same target set, method set, filter and responder that
\* differ only in the order in which the workers complete write identical
\* reports: a run that launches its workers in the order of URLList writes
\* the report of the run that launches them in that order and in which they
\* also complete in that order
C7_SameReportInEveryRun ==
    (mpc = "done" /\ launched = TargetsInOrder(1)) => report = ReferenceReport

\* the codes of the header lines of a report, in the order of the report
HeaderCodes(lines) ==
    LET hs == SelectSeq(lines,
                LAMBDA l : IF Len(l) = 2 THEN l[1] = "Responses with Status Code:" ELSE FALSE)
    IN  [i \in 1..Len(hs) |-> hs[i][2]]

\* C8: the report lists the status-code groups in strictly ascending order,
\* one group for each status code of the result map
C8_GroupsAscending ==
    mpc = "done" =>
        LET codes == HeaderCodes(report)
        IN  /\ \A i \in 1..(Len(codes) - 1) : codes[i] < codes[i + 1]
            /\ Range(codes) = DOMAIN urlStatuses
            /\ Len(codes) = Cardinality(DOMAIN urlStatuses)

\* a report with the two groups 200 and 404 was written
C8_Witness ==
    /\ mpc = "done"
    /\ HeaderCodes(report) = <<200, 404>>

\* C9: a failed probe never ends the run and never keeps another probe from
\* running: once a probe has failed the run can still take a step until it
\* has written the report (or could not create the file), and the written
\* report is that of a run in which every pair was probed and returned, with
\* a line for every included pair
C9_ErrorsAreLocal ==
    (\E t \in Tasks : Failing(t) /\ Returned(t)) =>
        /\ mpc \in {"done", "failed"} \/ ENABLED Next
        /\ mpc = "done" =>
            \A t \in Tasks :
                /\ probes[t] = 1
                /\ Returned(t)
                /\ rets[t][3] => \E i \in 1..Len(report) :
                                    report[i] = ResultLine(Result(t[1], t[2], rets[t][2]))

\* a report was written in a run in which the GET probe of a url failed,
\* and the POST probe of that url and a probe of the other url were included
C9_Witness ==
    /\ mpc = "done"
    /\ \E u \in urlsMap :
          /\ Failing(<<"GET", u>>)
          /\ Len(methods) = 2
          /\ rets[<<"POST", u>>][3]
          /\ \E v \in urlsMap \ {u} : \E m \in Range(methods) : rets[<<m, v>>][3]

\* C10: when the request cannot be built or client.Do returns an error,
\* checkURL returns (0, 0, false), the pair gets no entry in the result map
\* and no line in the report
C10_FailedRequestAbsent ==
    \A t \in Tasks :
        (Returned(t) /\ responder[t].kind \in {"reqErr", "httpErr"}) =>
            /\ rets[t] = <<0, 0, FALSE>>
            /\ Entries(t) = {}
            /\ \A i \in 1..Len(report) :
                  Len(report[i]) = 6 => ~(report[i][2] = t[1] /\ report[i][4] = t[2])

\* a non-empty report was written in a run with a request that could not be
\* built and a request that client.Do failed
C10_Witness ==
    /\ mpc = "done"
    /\ report # <<>>
    /\ \E t \in Tasks : responder[t].kind = "reqErr" /\ Returned(t)
    /\ \E t \in Tasks : responder[t].kind = "httpErr" /\ Returned(t)

\* C11: when reading the response body fails, checkURL returns the status
\* code of the response with length 0 and included = false, and the pair gets
\* no entry in the result map and no line in the report, under every filter
\* configuration
C11_BodyReadErrorDropped ==
    \A t \in Tasks :
        (Returned(t) /\ responder[t].kind = "bodyErr") =>
            /\ rets[t] = <<responder[t].status, 0, FALSE>>
            /\ Entries(t) = {}
            /\ \A i \in 1..Len(report) :
                  Len(report[i]) = 6 => ~(report[i][2] = t[1] /\ report[i][4] = t[2])

\* the run ended after a body read failed on a response with a known status,
\* with no regex and no excluded length: a filter that includes every body
\* that was read
C11_Witness ==
    /\ mpc = "done"
    /\ compiledRegex = NoRegex
    /\ excludedLengths = {}
    /\ \E t \in Tasks :
          /\ responder[t].kind = "bodyErr"
          /\ responder[t].status # 0
          /\ Returned(t)
          /\ filterResponseByLengthAndRegex(responder[t].status, <<>>, compiledRegex, excludedLengths)[3]

(* ------------------------ the preamble of run ------------------------- *)

\* run has not reached processURLs, or has ended before it
BeforeDispatch == mpc \in {"start", "preflight", "compile", "open", "read", "returned", "exited"}

\* no worker was launched and no request was sent
NothingProbed ==
    /\ launched = <<>>
    /\ \A u \in DOMAIN wpc : wpc[u] = "unborn"
    /\ \A t \in DOMAIN probes : probes[t] = 0
    /\ sem = 0
    /\ wg = 0

\* the proxy flag names a proxy whose URL does not parse or that refuses the
\* connection
ProxyUnusable == proxy # "" /\ (~ProxyParses(proxy) \/ ~ProxyDials(proxy))

\* run has gone through `if proxy != "" { checkProxyReachability(proxy) }`
PreflightDone == mpc \notin {"start", "preflight"} /\ urls # ""

\* C12: with a non-empty proxy whose URL does not parse or that cannot be
\* connected to, the preflight ends the process with exit status 1, with no
\* worker launched, no request sent and no report written, and nothing
\* happens afterwards; with an empty proxy the preflight only moves on to the
\* next step of run
C12_PreflightIsFatal ==
    /\ (ProxyUnusable /\ PreflightDone) =>
          /\ mpc = "exited"
          /\ exitCode = 1
          /\ NothingProbed
          /\ report = <<>>
          /\ ~ENABLED Next
    /\ (proxy = "" /\ mpc = "preflight") =>
          /\ ENABLED Preflight
          /\ ~ENABLED PreflightFails
    /\ (proxy = "" /\ PreflightDone) => mpc # "exited"

\* the process has exited in the preflight of a proxy whose URL parses but
\* that refuses the connection
C12_Witness ==
    /\ mpc = "exited"
    /\ exitCode = 1
    /\ ProxyParses(proxy)
    /\ ~ProxyDials(proxy)

\* one of the configuration errors of run: no URLs file given, a URLs file
\* that cannot be opened, a filter regex that does not compile
ConfigError == urls = "" \/ ~OpenSucceeds(urls) \/ filterRegex = InvalidRegex

\* C13: in a run with a configuration error (no URLs file given, a URLs file
\* that cannot be opened, a filter regex that does not compile) run never
\* reaches dispatch: no worker is launched, no request is sent, no report is
\* written, and after the error is reported nothing happens
C13_ConfigErrorBeforeProbing ==
    ConfigError =>
        /\ mpc \in {"start", "preflight", "compile", "open", "returned", "exited"}
        /\ NothingProbed
        /\ report = <<>>
        /\ mpc = "returned" => ~ENABLED Next

\* run has returned on a filter regex that does not compile, although the
\* URLs file is readable and the proxy answers
C13_Witness ==
    /\ mpc = "returned"
    /\ filterRegex = InvalidRegex
    /\ OpenSucceeds(urls)
    /\ proxy # ""
    /\ ProxyDials(proxy)

\* C14: once run has stopped on a configuration error (no URLs file given,
\* a URLs file that cannot be opened, a filter regex that does not compile)
\* the exit status of the process is not zero
C14_ConfigErrorExitsNonZero ==
    (ConfigError /\ mpc \in {"returned", "exited"}) => exitCode \notin {NoExit, 0}

(* ------------------------ the lines of the report --------------------- *)

\* a < b or a = b on Go strings: byte-wise lexicographic order, as in the
\* comparison `urlI.Path < urlJ.Path` of the writeToFile that sorted the lines
RECURSIVE LexLeq(_, _)
LexLeq(a, b) ==
    IF a = <<>> THEN TRUE
    ELSE IF b = <<>> THEN FALSE
    ELSE IF Head(a) < Head(b) THEN TRUE
    ELSE IF Head(a) > Head(b) THEN FALSE
    ELSE LexLeq(Tail(a), Tail(b))

\* line i of the report is an outcome line: neither a group header nor a
\* blank line
IsOutcomeLine(i) == Len(report[i]) \notin {Len(BlankLine), Len(HeaderLine(0))}

\* C15: inside every status-code group of the report the outcome lines are in
\* non-decreasing lexicographic order of their URL, whatever the order in
\* which the workers appended them
C15_GroupSortedByURL ==
    \A i \in 1..(Len(report) - 1) :
        (IsOutcomeLine(i) /\ IsOutcomeLine(i + 1)) =>
            LexLeq(report[i][4], report[i + 1][4])

\* C16: every outcome line of the report carries the URL and the length; it
\* carries the method segment when more than one method was probed and has
\* no method segment when only GET was probed
C16_MethodSegmentOnlyWhenNeeded ==
    \A i \in 1..Len(report) :
        IsOutcomeLine(i) =>
            IF Len(methods) > 1
            THEN /\ Len(report[i]) = 6
                 /\ report[i][2] \in Range(methods)
                 /\ report[i][4] \in urlsMap
            ELSE /\ Len(report[i]) = 3
                 /\ report[i][1] \in urlsMap

(* ------------------------------ readURLs ------------------------------ *)

\* every URLs file of at most MaxLines lines under every setting of the two
\* suffix flags, probed with GET on one thread, every response a 200
InitReadURLs ==
    \/ /\ urls = "urls.txt"
       /\ proxy = ""
       /\ filterRegex = EmptyRegexFlag
       /\ ignoreCSS \in BOOLEAN
       /\ ignoreJS \in BOOLEAN
       /\ headers = <<>>
       /\ fileLines \in FilesUpTo(MaxLines)
       /\ threads = 1
       /\ methodFlags = NoMethodFlags
       /\ excludedLengths = {}
       /\ responder = [t \in FutureTasks |-> Resp(200, <<97>>)]
       /\ Fresh
    \/ Setups

SpecReadURLs == InitReadURLs /\ [][Next]_vars

\* readURLs has returned
URLsRead == mpc \in {"loop", "wait", "create", "write", "done", "failed"}

\* the suffix test of readURLs removes this line
Removed(line) ==
    \/ ignoreCSS /\ HasSuffix(line, DotCSS)
    \/ ignoreJS /\ HasSuffix(line, DotJS)

\* the distinct lines of a file that the suffix test does not remove
Retained(lines) == {l \in Range(lines) : ~Removed(l)}

\* the file with its lines in the order p
Permuted(lines, p) == [i \in 1..Len(lines) |-> lines[p[i]]]

\* C17: the map readURLs returns is exactly the set of distinct lines of the
\* file that the suffix flags do not remove; its size is the number of
\* distinct retained strings; and readURLs returns the same map for every
\* permutation of the lines and when every line is repeated
C17_DistinctRetainedLines ==
    URLsRead =>
        /\ urlsMap = Retained(fileLines)
        /\ Cardinality(urlsMap) = Cardinality(Retained(fileLines))
        /\ Cardinality(urlsMap) <= Len(fileLines)
        /\ \A p \in Orders(1..Len(fileLines)) :
              readURLs(Permuted(fileLines, p), ignoreCSS, ignoreJS) = urlsMap
        /\ readURLs(fileLines \o fileLines, ignoreCSS, ignoreJS) = urlsMap
        /\ \A i \in 1..Len(fileLines) :
              readURLs(Append(fileLines, fileLines[i]), ignoreCSS, ignoreJS) = urlsMap

\* readURLs has read a file of three lines whose first line is removed by a
\* suffix flag, whose second line is kept and whose third line repeats the
\* second
C17_Witness ==
    /\ URLsRead
    /\ Len(fileLines) = 3
    /\ Removed(fileLines[1])
    /\ ~Removed(fileLines[2])
    /\ fileLines[3] = fileLines[2]
    /\ Cardinality(urlsMap) = 1

\* C18: with ignoreCSS set no string that ends in ".css" is in the map
\* readURLs returns, and with ignoreJS set no string that ends in ".js"; with
\* ignoreCSS unset every line that ends in ".css" is in the map, whatever
\* ignoreJS is, and with ignoreJS unset every line that ends in ".js",
\* whatever ignoreCSS is
C18_SuffixFlagsIndependent ==
    URLsRead =>
        /\ ignoreCSS => \A u \in urlsMap : ~HasSuffix(u, DotCSS)
        /\ ignoreJS => \A u \in urlsMap : ~HasSuffix(u, DotJS)
        /\ ~ignoreCSS => \A l \in Range(fileLines) : HasSuffix(l, DotCSS) => l \in urlsMap
        /\ ~ignoreJS => \A l \in Range(fileLines) : HasSuffix(l, DotJS) => l \in urlsMap

\* readURLs has read a file with a line ending in ".css" and a line ending in
\* ".js" with only ignoreCSS set: the first is gone, the second is a target
C18_Witness ==
    /\ URLsRead
    /\ ignoreCSS
    /\ ~ignoreJS
    /\ \E l \in Range(fileLines) : HasSuffix(l, DotCSS) /\ l \notin urlsMap
    /\ \E l \in Range(fileLines) : HasSuffix(l, DotJS) /\ l \in urlsMap

\* the line carries a query string or a fragment
HasQueryOrFragment(line) == PathOf(line) # line

\* C19 as it was stated: with a suffix flag set, the map readURLs returns
\* holds no URL whose path ends with the suffix, a URL with a query string or
\* fragment after that path included
C19_PathSuffixExcluded ==
    URLsRead =>
        /\ ignoreCSS => \A u \in urlsMap : ~HasSuffix(PathOf(u), DotCSS)
        /\ ignoreJS => \A u \in urlsMap : ~HasSuffix(PathOf(u), DotJS)

\* C19: with a suffix flag set, the map readURLs returns excludes the lines
\* that themselves end with the suffix; a line whose path ends with ".css" or
\* ".js" and that carries a query string or fragment after it is a target,
\* unless the whole line again ends with a suffix whose flag is set
C19_WholeLineSuffixExcluded ==
    URLsRead =>
        \A l \in Range(fileLines) :
            /\ l \in urlsMap <=> ~Removed(l)
            /\ ( /\ HasQueryOrFragment(l)
                 /\ HasSuffix(PathOf(l), DotCSS) \/ HasSuffix(PathOf(l), DotJS)
                 /\ ~HasSuffix(l, DotCSS)
                 /\ ~HasSuffix(l, DotJS) ) => l \in urlsMap

\* with both flags set readURLs has read a file that holds a line ending in
\* ".css", which is gone, and the same path followed by a query string,
\* which is a target
C19_Witness ==
    /\ URLsRead
    /\ ignoreCSS
    /\ ignoreJS
    /\ \E l \in Range(fileLines) :
          /\ HasQueryOrFragment(l)
          /\ HasSuffix(PathOf(l), DotCSS)
          /\ l \in urlsMap
          /\ PathOf(l) \in Range(fileLines)
          /\ PathOf(l) \notin urlsMap

(* ----------------------------- the headers ---------------------------- *)

\* every --headers flag of at most MaxEntries entries joined by ";", with
\* one url probed with GET on one thread
InitHeaders ==
    \/ /\ urls = "urls.txt"
       /\ proxy = ""
       /\ filterRegex = EmptyRegexFlag
       /\ ignoreCSS = TRUE
       /\ ignoreJS = TRUE
       /\ headers \in {Join(es, Semicolon) : es \in EntriesUpTo(MaxEntries)}
       /\ fileLines = <<URLList[1]>>
       /\ threads = 1
       /\ methodFlags = NoMethodFlags
       /\ excludedLengths = {}
       /\ responder \in [FutureTasks -> {ReqErr, Resp(200, <<97>>)}]
       /\ Fresh
    \/ Setups

SpecHeaders == InitHeaders /\ [][Next]_vars

\* the request header h carries the value under the name: as one of the
\* values of the canonical name, or as one of the parts of a value that
\* strings.Join made with "; "
Carries(h, name, value) ==
    /\ CanonicalMIMEHeaderKey(name) \in DOMAIN h
    /\ \E i \in 1..Len(h[CanonicalMIMEHeaderKey(name)]) :
          \/ h[CanonicalMIMEHeaderKey(name)][i] = value
          \/ value \in Range(Split(h[CanonicalMIMEHeaderKey(name)][i], SemicolonSpace))

\* C20: whatever the header map and the order in which prepareHTTPRequest
\* iterates over its names, the request a worker sends carries every value
\* of every name of the map: none is dropped or overwritten by another entry
C20_EveryConfiguredValueCarried ==
    \A u \in DOMAIN wpc :
        wpc[u] = "inflight" =>
            \A name \in DOMAIN headersMap :
                \A i \in 1..Len(headersMap[name]) :
                    Carries(req[u], name, headersMap[name][i])

\* C21: when the header map holds several values under "Cookie", the request
\* a worker sends has one Cookie header, whose value is these values joined
\* with "; " in the order they were given
C21_SingleJoinedCookie ==
    \A u \in DOMAIN wpc :
        ( /\ wpc[u] = "inflight"
          /\ CookieKey \in DOMAIN headersMap
          /\ Len(headersMap[CookieKey]) >= 2 ) =>
            /\ CookieKey \in DOMAIN req[u]
            /\ req[u][CookieKey] = <<Join(headersMap[CookieKey], SemicolonSpace)>>

\* run has gone through `if headers != "" { headersMap = parseHeaders(headers) }`
HeadersParsed == mpc # "start" /\ urls # ""

\* the ";"-separated entries of the --headers flag, left to right
EntriesOf(h) == Split(h, Semicolon)

\* the entry holds a ":"
WellFormed(e) == \E i \in 1..Len(e) : e[i] = 58

\* the position of the first ":" of a well-formed entry
FirstColon(e) == CHOOSE i \in 1..Len(e) : e[i] = 58 /\ \A j \in 1..(i - 1) : e[j] # 58

\* the trimmed text before the first ":" of a well-formed entry
NameOf(e) == TrimSpace(SubSeq(e, 1, FirstColon(e) - 1))

\* the trimmed text after the first ":" of a well-formed entry
ValueOf(e) == TrimSpace(SubSeq(e, FirstColon(e) + 1, Len(e)))

\* the values of the well-formed entries with this name, left to right
RECURSIVE ValuesUnder(_, _)
ValuesUnder(name, entries) ==
    IF entries = <<>> THEN <<>>
    ELSE (IF WellFormed(Head(entries)) /\ NameOf(Head(entries)) = name
          THEN <<ValueOf(Head(entries))>> ELSE <<>>)
            \o ValuesUnder(name, Tail(entries))

\* C22: the map parseHeaders returns has exactly the trimmed names of the
\* well-formed entries of the header string, and under each name the values
\* of the well-formed entries with that trimmed name, in left-to-right order,
\* none lost or overwritten
C22_ValuesAccumulateInOrder ==
    HeadersParsed =>
        /\ DOMAIN headersMap =
              {NameOf(e) : e \in {x \in Range(EntriesOf(headers)) : WellFormed(x)}}
        /\ \A name \in DOMAIN headersMap :
              headersMap[name] = ValuesUnder(name, EntriesOf(headers))

\* parseHeaders has returned a map that holds, under one name, two different
\* values in the order of their entries, of which one was written with
\* spaces around the name
C22_Witness ==
    /\ HeadersParsed
    /\ \E name \in DOMAIN headersMap :
          /\ Len(headersMap[name]) = 2
          /\ headersMap[name][1] # headersMap[name][2]
          /\ \E i, j \in 1..Len(EntriesOf(headers)) :
                /\ i < j
                /\ WellFormed(EntriesOf(headers)[i])
                /\ WellFormed(EntriesOf(headers)[j])
                /\ NameOf(EntriesOf(headers)[i]) = name
                /\ NameOf(EntriesOf(headers)[j]) = name
                /\ SubSeq(EntriesOf(headers)[j], 1, FirstColon(EntriesOf(headers)[j]) - 1) # name
                /\ headersMap[name][1] = ValueOf(EntriesOf(headers)[i])
                /\ headersMap[name][2] = ValueOf(EntriesOf(headers)[j])

\* "Key1:Value1;Key2:Value2", "Key1", "Value1", "Key2" and "Value2"
ExampleHeaders ==
    <<75, 101, 121, 49, 58, 86, 97, 108, 117, 101, 49, 59,
      75, 101, 121, 50, 58, 86, 97, 108, 117, 101, 50>>
Key1 == <<75, 101, 121, 49>>
Value1 == <<86, 97, 108, 117, 101, 49>>
Key2 == <<75, 101, 121, 50>>
Value2 == <<86, 97, 108, 117, 101, 50>>

\* C23: for every entry of the header string that holds a ":", the map
\* parseHeaders returns holds, under the trimmed text before the first ":",
\* the trimmed text after it, further ":" included; and
\* "Key1:Value1;Key2:Value2" maps Key1 to Value1 and Key2 to Value2
C23_SplitAtFirstColon ==
    /\ HeadersParsed =>
          \A i \in 1..Len(EntriesOf(headers)) :
              WellFormed(EntriesOf(headers)[i]) =>
                  /\ NameOf(EntriesOf(headers)[i]) \in DOMAIN headersMap
                  /\ ValueOf(EntriesOf(headers)[i])
                        \in Range(headersMap[NameOf(EntriesOf(headers)[i])])
    /\ DOMAIN parseHeaders(ExampleHeaders) = {Key1, Key2}
    /\ parseHeaders(ExampleHeaders)[Key1] = <<Value1>>
    /\ parseHeaders(ExampleHeaders)[Key2] = <<Value2>>

\* parseHeaders has returned a map with a value that holds a ":"
C23_Witness ==
    /\ HeadersParsed
    /\ \E name \in DOMAIN headersMap :
          \E i \in 1..Len(headersMap[name]) :
              /\ WellFormed(headersMap[name][i])
              /\ \E j \in 1..Len(EntriesOf(headers)) :
                    /\ WellFormed(EntriesOf(headers)[j])
                    /\ NameOf(EntriesOf(headers)[j]) = name
                    /\ ValueOf(EntriesOf(headers)[j]) = headersMap[name][i]

(* ------------------------------ the client ---------------------------- *)

\* C24: a pair never has more than one HTTP request sent for it, and has
\* exactly one once client.Do has run for it (none when the request could not
\* be built); when the response is a redirect, checkURL returns what the
\* classifier makes of the status code and body of that response, and no
\* request goes to the Location
C24_OneRequestRedirectNotFollowed ==
    \A t \in Tasks :
        /\ sent[t] <= 1
        /\ Returned(t) => sent[t] = (IF responder[t].kind = "reqErr" THEN 0 ELSE 1)
        /\ (Returned(t) /\ IsRedirect(responder[t])) =>
              rets[t] = filterResponseByLengthAndRegex(responder[t].status, responder[t].body,
                                                       compiledRegex, excludedLengths)

\* the run ended with a redirect response recorded under its own status code
\* and with the length of its own body, which differs from what the Location
\* would have answered
C24_Witness ==
    /\ mpc = "done"
    /\ \E t \in Tasks :
          /\ IsRedirect(responder[t])
          /\ sent[t] = 1
          /\ rets[t] = <<responder[t].status, Len(responder[t].body), TRUE>>
          /\ responder[t].status # LocationResp.status
          /\ Len(responder[t].body) # Len(LocationResp.body)
          /\ responder[t].status \in DOMAIN urlStatuses

(* ------------------------------ getMethods ---------------------------- *)

\* every setting of the --check-* flags, with one url probed on one thread
InitMethods ==
    \/ /\ urls = "urls.txt"
       /\ proxy = ""
       /\ filterRegex = EmptyRegexFlag
       /\ ignoreCSS = TRUE
       /\ ignoreJS = TRUE
       /\ headers = <<>>
       /\ methodFlags \in AllMethodFlags
       /\ fileLines = <<URLList[1]>>
       /\ threads = 1
       /\ excludedLengths = {}
       /\ responder = [t \in FutureTasks |-> Resp(200, <<97>>)]
       /\ Fresh
    \/ Setups

SpecMethods == InitMethods /\ [][Next]_vars

\* processURLs has called getMethods
MethodsRead == mpc \in {"loop", "acquire", "launch", "wait", "create", "write", "done", "failed"}

\* the flag of each method other than GET
FlagOf(f) ==
    [m \in {"POST", "PUT", "PATCH", "DELETE", "OPTIONS"} |->
        CASE m = "POST" -> f.post
          [] m = "PUT" -> f.put
          [] m = "PATCH" -> f.patch
          [] m = "DELETE" -> f.delete
          [] m = "OPTIONS" -> f.options]

\* C25: the list getMethods returns has no duplicates, starts with GET, holds
\* GET once, and holds each of POST, PUT, PATCH, DELETE, OPTIONS if and only
\* if the flag of that method or --check-all is set; with no flag set it is
\* the list [GET]
C25_MethodList ==
    MethodsRead =>
        /\ \A i, j \in 1..Len(methods) : methods[i] = methods[j] => i = j
        /\ methods[1] = "GET"
        /\ Range(methods) \subseteq {"GET", "POST", "PUT", "PATCH", "DELETE", "OPTIONS"}
        /\ \A m \in DOMAIN FlagOf(methodFlags) :
              m \in Range(methods) <=> (methodFlags.all \/ FlagOf(methodFlags)[m])
        /\ methodFlags = NoMethodFlags => methods = <<"GET">>

\* a run in which --check-all and --check-put are both set has written its
\* report after probing the url with six methods
C25_Witness ==
    /\ mpc = "done"
    /\ methodFlags.all
    /\ methodFlags.put
    /\ ~methodFlags.post
    /\ Len(methods) = 6
    /\ \A m \in Range(methods) : \A u \in urlsMap : probes[<<m, u>>] = 1

(* ----------------------- the slots and the wait group ----------------- *)

\* the final join wg.Wait() has returned
Joined == mpc \in {"create", "write", "done", "failed"}

\* C26: no worker gives back its semaphore slot or decrements the wait group
\* more than once, a worker that has ended has done each exactly once
\* whatever its probes returned, and once wg.Wait() has returned every worker
\* has ended, no slot is held and the wait-group counter is zero
C26_ReleaseAndDoneOnce ==
    /\ \A u \in urlsMap :
          /\ releases[u] <= 1
          /\ dones[u] <= 1
          /\ dones[u] <= releases[u]
          /\ wpc[u] = "exited" => (releases[u] = 1 /\ dones[u] = 1)
          /\ u \in SlotHolders => releases[u] = 0
    /\ Joined =>
          /\ \A u \in urlsMap : wpc[u] = "exited"
          /\ sem = 0
          /\ wg = 0

\* wg.Wait() has returned in a run of two workers: the probe of one could not
\* be built or sent or its body could not be read, the probe of the other
\* was recorded
C26_Witness ==
    /\ Joined
    /\ Len(methods) = 1
    /\ \E u, v \in urlsMap :
          /\ Failing(<<"GET", u>>)
          /\ rets[<<"GET", v>>][3]
          /\ releases[u] = 1
          /\ dones[u] = 1
          /\ releases[v] = 1
          /\ dones[v] = 1

(* ------------------------------ termination --------------------------- *)

\* the steps of the goroutine that executes run
MainGoroutine ==
    \/ UrlsFlagMissing
    \/ UrlsFlagGiven
    \/ Preflight
    \/ PreflightFails
    \/ CompileRegex
    \/ CompileRegexFails
    \/ OpenFile
    \/ OpenFileFails
    \/ ReadURLs
    \/ WgAdd
    \/ SemAcquire
    \/ GoLaunch
    \/ ProcessURLsReturn
    \/ WgWait
    \/ OsCreate
    \/ OsCreateFails
    \/ WriteToFile

\* the steps of the worker goroutine of u
Worker(u) ==
    /\ u \in urlsMap
    /\ \/ PrepareRequest(u)
       \/ ClientDo(u)
       \/ MutexLock(u)
       \/ AppendRead(u)
       \/ AppendWrite(u)
       \/ MutexUnlock(u)
       \/ AddProcessed(u)
       \/ SemRelease(u)
       \/ WgDone(u)

\* the Go scheduler runs every goroutine that can take a step
Fairness == WF_vars(MainGoroutine) /\ \A u \in URLS : WF_vars(Worker(u))

\* every target set over URLList and every thread count, probed with GET or
\* with GET and POST, where every request is answered, cannot be built, or is
\* never answered
InitLive ==
    \/ /\ urls = "urls.txt"
       /\ proxy = ""
       /\ filterRegex = EmptyRegexFlag
       /\ ignoreCSS = TRUE
       /\ ignoreJS = TRUE
       /\ headers = <<>>
       /\ methodFlags \in MethodFlagSets
       /\ fileLines \in MainFiles
       /\ threads \in 1..MaxThreads
       /\ excludedLengths = {}
       /\ responder \in [FutureTasks -> {Hang, ReqErr, Resp(200, <<97>>)}]
       /\ Fresh
    \/ Setups

SpecLive == InitLive /\ [][Next]_vars /\ Fairness

\* the worker of u was launched
Dispatched(u) == u \in DOMAIN wpc /\ wpc[u] # "unborn"

\* the worker of u has ended
Ended(u) == u \in DOMAIN wpc /\ wpc[u] = "exited"

\* C27 as it was stated: once run dispatches, every launched worker
\* eventually ends, wg.Wait() eventually returns and the report is eventually
\* written
C27_ReportEventuallyWritten ==
    /\ \A u \in URLS : Dispatched(u) ~> Ended(u)
    /\ (mpc = "loop") ~> Joined
    /\ (mpc = "loop") ~> (mpc = "done")

\* C27: once run dispatches, every launched worker eventually ends and
\* wg.Wait() eventually returns, whatever the thread count and whether the
\* requests are answered, fail or run into the timeout; then the report is
\* eventually written, unless the output file cannot be created, in which
\* case run ends without a report
C27_RunEventuallyEnds ==
    /\ \A u \in URLS : Dispatched(u) ~> Ended(u)
    /\ (mpc = "loop") ~> Joined
    /\ (mpc = "loop") ~> (mpc = "done" \/ (mpc = "failed" /\ report = <<>>))

\* the report was written in a run of two urls on one thread in which one
\* request was never answered and one was
C27_Witness ==
    /\ mpc = "done"
    /\ threads = 1
    /\ Cardinality(urlsMap) = 2
    /\ \E t \in Tasks : Hangs(responder[t]) /\ rets[t] = <<0, 0, FALSE>>
    /\ \E t \in Tasks : rets[t][3]

(* --------------------- the mutex and the scheduling loop -------------- *)

\* the workers between Lock() and Unlock()
InCritical == {u \in urlsMap : wpc[u] \in {"read", "write", "unlock"}}

\* C28: at most one worker is between Lock() and Unlock() at any time, the
\* holder of the mutex is exactly that worker, so the mutex is held for the
\* append only, and no worker holds it while it builds a request or waits
\* for client.Do and the body
C28_CriticalSectionIsTheAppend ==
    /\ Cardinality(InCritical) <= 1
    /\ mutex = InCritical
    /\ \A u \in urlsMap : wpc[u] \in {"prepare", "inflight"} => u \notin mutex

\* a worker is inside the append while another waits at Lock(), in a run
\* where every worker probes two methods
C28_Witness ==
    /\ Len(methods) = 2
    /\ \E u, v \in urlsMap :
          /\ wpc[u] = "write"
          /\ mutex = {u}
          /\ wpc[v] = "lock"

\* C29: every (url, method) pair is launched as a goroutine of its own that
\* takes a slot of its own: when wg.Wait() has returned, as many workers were
\* launched as there are pairs
C29_OneWorkerPerPair ==
    Joined => Len(launched) = Cardinality(Tasks)

\* C30: the loop of processURLs waits only at `sem <- true` and only while
\* all threads slots are held: with a slot free the send can proceed, with a
\* key left wg.Add can proceed, and after the send the goroutine can be
\* launched, whatever the workers in flight are doing
C30_LoopBlocksOnlyWhenFull ==
    /\ (mpc = "acquire" /\ sem < threads) => ENABLED SemAcquire
    /\ (mpc = "acquire" /\ ~ENABLED SemAcquire) => sem = threads
    /\ (mpc = "loop" /\ remaining # {}) => ENABLED WgAdd
    /\ mpc = "launch" => ENABLED GoLaunch

\* the loop is at `sem <- true` for the second url with a slot free while
\* the worker of the first url still waits for client.Do
C30_Witness ==
    /\ mpc = "acquire"
    /\ sem < threads
    /\ sem > 0
    /\ InFlight # {}
    /\ ENABLED SemAcquire

(* ------------------------ the progress counter ------------------------ *)

\* totalRequests := len(urls) * len(methods)
totalRequests == Cardinality(urlsMap) * Len(methods)

\* the worker of t's url has finished the iteration of its loop that probes t
Passed(t) ==
    LET u == t[2]
        i == CHOOSE j \in 1..Len(methods) : methods[j] = t[1]
    IN  \/ wpc[u] \notin {"unborn"} /\ i < mi[u]
        \/ wpc[u] \in {"release", "wgdone", "exited"}

\* C31: the progress counter counts exactly the tasks whose loop iteration
\* has finished, whatever the interleaving of the workers; each of them has
\* logged one progress line and no other task has logged any; the counter
\* never exceeds totalRequests, and equals it once wg.Wait() has returned
C31_ProgressCounter ==
    MethodsRead =>
        /\ processedCount = Cardinality({t \in Tasks : Passed(t)})
        /\ \A t \in Tasks : shown[t] = (IF Passed(t) THEN 1 ELSE 0)
        /\ processedCount <= totalRequests
        /\ Joined => processedCount = totalRequests

\* two workers that ran side by side, two methods each: all four tasks are
\* counted when wg.Wait() has returned
C31_Witness ==
    /\ Joined
    /\ threads = 2
    /\ Len(launched) = 2
    /\ Len(methods) = 2
    /\ processedCount = 4
    /\ \A t \in Tasks : shown[t] = 1

(* ------------------------ the life of a task -------------------------- *)

\* the transitions of the state machine as the specification draws it
StatedEdges ==
    {<<"Created", "Built">>, <<"Built", "Sent">>, <<"Sent", "Succeeded">>,
     <<"Succeeded", "Classified">>, <<"Classified", "Recorded">>,
     <<"Classified", "Dropped">>, <<"Sent", "Failed">>, <<"Failed", "Skipped">>}

\* the two transitions checkURL has besides: the request cannot be built,
\* and the body of the response cannot be read
ErrorEdges == {<<"Created", "Failed">>, <<"Succeeded", "Dropped">>}

Terminal == {"Recorded", "Dropped", "Skipped"}

\* the stages l start at Created and every move is one of the edges
FollowsEdges(l, edges) ==
    /\ l # <<>>
    /\ l[1] = "Created"
    /\ \A i \in 1..(Len(l) - 1) : <<l[i], l[i + 1]>> \in edges

\* C32 as it was stated: every task moves only along Created -> Built ->
\* Sent -> (Succeeded -> Classified -> (Recorded | Dropped)) | (Failed ->
\* Skipped)
C32_StatedTransitionsOnly ==
    MethodsRead => \A t \in Tasks : FollowsEdges(life[t], StatedEdges)

\* C32, amended: every task moves only along the stated transitions and the
\* two error transitions Created -> Failed and Succeeded -> Dropped; a
\* terminal stage is never left and no stage is entered twice; a task whose
\* loop iteration has finished is in exactly one of Recorded, Dropped and
\* Skipped; the stages agree with what happened: a request went out exactly
\* for the tasks that reached Sent, and an entry is in the result map exactly
\* for the tasks that reached Recorded
C32_Lifecycle ==
    MethodsRead =>
        \A t \in Tasks :
            LET l == life[t]
            IN  /\ FollowsEdges(l, StatedEdges \cup ErrorEdges)
                /\ \A i, j \in 1..Len(l) : l[i] = l[j] => i = j
                /\ \A i \in 1..Len(l) : l[i] \in Terminal => i = Len(l)
                /\ Passed(t) => l[Len(l)] \in Terminal
                /\ ("Sent" \in Range(l)) = (sent[t] > 0)
                /\ ("Recorded" \in Range(l)) = (Entries(t) # {})
                /\ l[Len(l)] = "Skipped" => rets[t] = <<0, 0, FALSE>>

\* the run has ended with a task in each of the ways a task can end:
\* recorded, classified and dropped, dropped because its body could not be
\* read, skipped because its request could not be built
C32_Witness ==
    /\ mpc = "done"
    /\ \E t \in Tasks : life[t] = <<"Created", "Built", "Sent", "Succeeded", "Classified", "Recorded">>
    /\ \E t \in Tasks : life[t] = <<"Created", "Built", "Sent", "Succeeded", "Classified", "Dropped">>
    /\ \E t \in Tasks : life[t] = <<"Created", "Built", "Sent", "Succeeded", "Dropped">>
    /\ \E t \in Tasks : life[t] = <<"Created", "Failed", "Skipped">>

(* -------------------- what the classifier passes on ------------------- *)

\* C33: in every branch the classifier returns the status code it was given
\* and the byte length of the body, also when it returns included = false:
\* checkURL returns the status code and body length of every response whose
\* body was read
C33_StatusAndLengthPassedOn ==
    \A t \in Tasks :
        (Returned(t) /\ Answered(t)) =>
            /\ rets[t][1] = responder[t].status
            /\ rets[t][2] = Len(responder[t].body)

\* a response that matches the regex was classified (as in
\* TestProcessResponse_MatchesRegex): included = false, yet the status code,
\* not 200 here, and the length of the non-empty body are returned
C33_Witness ==
    \E t \in Tasks :
        /\ Returned(t)
        /\ Answered(t)
        /\ responder[t].status # 200
        /\ responder[t].body # <<>>
        /\ Len(responder[t].body) \notin excludedLengths
        /\ compiledRegex # NoRegex
        /\ Match(compiledRegex, responder[t].body)
        /\ rets[t] = <<responder[t].status, Len(responder[t].body), FALSE>>

(* ------------------- malformed entries and ";" in values -------------- *)

\* the header string without its entries that hold no ":"
WithoutMalformed(h) == Join(SelectSeq(EntriesOf(h), WellFormed), Semicolon)

\* C34: an entry without ":" is skipped and the entries around it are parsed
\* as if it were not there: the map parseHeaders returns for a header string is
\* the map it returns for the string without the malformed entries
C34_MalformedEntrySkipped ==
    (HeadersParsed /\ headers # <<>>) =>
        headersMap = parseHeaders(WithoutMalformed(headers))

\* parseHeaders has returned for a header string with a malformed entry
\* between two well-formed ones of different names: both names are in the map
C34_Witness ==
    /\ HeadersParsed
    /\ Len(EntriesOf(headers)) = 3
    /\ WellFormed(EntriesOf(headers)[1])
    /\ ~WellFormed(EntriesOf(headers)[2])
    /\ WellFormed(EntriesOf(headers)[3])
    /\ NameOf(EntriesOf(headers)[1]) # NameOf(EntriesOf(headers)[3])
    /\ DOMAIN headersMap = {NameOf(EntriesOf(headers)[1]), NameOf(EntriesOf(headers)[3])}
    /\ WithoutMalformed(headers) # headers

\* "Cookie: a=1; b=2"
CookieExample == <<67, 111, 111, 107, 105, 101, 58, 32, 97, 61, 49, 59, 32, 98, 61, 50>>

\* "a=1"
CookieExampleValue == <<97, 61, 49>>

\* C37: no name and no value of the map parseHeaders returns holds a ";":
\* the header string is split at every ";" before any ":" is looked for, so
\* what follows a ";" is an entry of its own, dropped when it has no ":";
\* "Cookie: a=1; b=2" yields Cookie -> ["a=1"] only
C37_NoSemicolonInValue ==
    /\ HeadersParsed =>
          \A name \in DOMAIN headersMap :
              /\ 59 \notin Range(name)
              /\ \A i \in 1..Len(headersMap[name]) : 59 \notin Range(headersMap[name][i])
    /\ DOMAIN parseHeaders(CookieExample) = {CookieKey}
    /\ parseHeaders(CookieExample)[CookieKey] = <<CookieExampleValue>>

\* parseHeaders has returned for a header string in which a well-formed
\* entry is followed by text without ":": the map holds the value up to the
\* ";" and nothing of the text after it
C37_Witness ==
    /\ HeadersParsed
    /\ Len(EntriesOf(headers)) = 2
    /\ WellFormed(EntriesOf(headers)[1])
    /\ ~WellFormed(EntriesOf(headers)[2])
    /\ EntriesOf(headers)[2] # <<>>
    /\ DOMAIN headersMap = {NameOf(EntriesOf(headers)[1])}
    /\ headersMap[NameOf(EntriesOf(headers)[1])] = <<ValueOf(EntriesOf(headers)[1])>>

(* ---------------------- the growth of the result map ------------------ *)

\* the step appends one entry at the end of the sequence of one status code
\* and leaves every other sequence as it is
AppendsOneEntry ==
    \E k \in DOMAIN urlStatuses' :
        /\ Len(urlStatuses'[k]) = Len(MapGet(urlStatuses, k)) + 1
        /\ SubSeq(urlStatuses'[k], 1, Len(urlStatuses'[k]) - 1) = MapGet(urlStatuses, k)
        /\ DOMAIN urlStatuses' = DOMAIN urlStatuses \cup {k}
        /\ \A j \in DOMAIN urlStatuses \ {k} : urlStatuses'[j] = urlStatuses[j]

\* C35: the result map only grows: every step of the run leaves it as it is
\* or appends one entry at the end of the sequence of one status code; no
\* entry is removed, moved or changed, neither before nor while the report
\* is written
C35_ResultMapOnlyGrows ==
    [][urlStatuses' = urlStatuses \/ AppendsOneEntry]_vars

\* workers that ran side by side have appended under two status codes, two
\* entries under one of them, and the report is not written yet
C35_Witness ==
    /\ mpc \in {"loop", "acquire", "launch", "wait"}
    /\ threads = 2
    /\ Cardinality(DOMAIN urlStatuses) = 2
    /\ \E k \in DOMAIN urlStatuses :
          /\ Len(urlStatuses[k]) = 2
          /\ urlStatuses[k][1].URL # urlStatuses[k][2].URL

(* --------------------------- a thread count of 0 ---------------------- *)

\* runs with --threads 0: make(chan bool, 0) is a channel without a buffer
InitZeroThreads ==
    \/ /\ urls = "urls.txt"
       /\ proxy = ""
       /\ ignoreCSS = TRUE
       /\ ignoreJS = TRUE
       /\ headers = <<>>
       /\ fileLines \in MainFiles
       /\ threads = 0
       /\ methodFlags \in MethodFlagSets
       /\ \E fc \in FilterConfigs : filterRegex = fc[1] /\ excludedLengths = fc[2]
       /\ responder \in [FutureTasks -> {HttpErr, Resp(200, <<97>>)}]
       /\ Fresh
    \/ Setups

SpecZeroThreads == InitZeroThreads /\ [][Next]_vars

\* C36: with a thread count of 0 and a target set that is not empty, the
\* loop of processURLs gets to its first `sem <- true` and never past it:
\* nothing of the program can run there (what the Go runtime does with a
\* process all of whose goroutines are blocked is not part of the program),
\* no worker is ever launched, wg.Wait() is never reached and no report is
\* written
C36_ZeroThreadsBlocks ==
    (threads = 0 /\ MethodsRead /\ urlsMap # {}) =>
        /\ mpc \in {"loop", "acquire"}
        /\ mpc = "loop" => remaining = urlsMap
        /\ mpc = "acquire" => (Cardinality(remaining) = Cardinality(urlsMap) - 1 /\ ~ENABLED Next)
        /\ launched = <<>>
        /\ \A u \in urlsMap : wpc[u] = "unborn"
        /\ \A t \in Tasks : probes[t] = 0 /\ sent[t] = 0
        /\ sem = 0
        /\ report = <<>>

\* the loop stands at its first `sem <- true` with two targets to probe
C36_Witness ==
    /\ threads = 0
    /\ mpc = "acquire"
    /\ Cardinality(urlsMap) = 2
    /\ wg = 1
    /\ sem = 0
    /\ ~ENABLED Next

(* ------------------------ no group without a line --------------------- *)

\* the status codes under which some task was returned as included
IncludedCodes == {rets[t][1] : t \in {x \in Tasks : Returned(x) /\ rets[x][3]}}

\* line i of the report is the header line of a group
IsHeaderLine(i) == report[i] \in {HeaderLine(k) : k \in {0} \cup StatusCodes}

\* C38: a status code is a key of the result map only with at least one
\* entry under it and only if a task with that status code was returned as
\* included; in the report every group header is followed by the empty line
\* and at least one outcome line, and the groups are exactly the status codes
\* of the included tasks: a status code whose every response was filtered out
\* or whose every probe failed has no group
C38_NoEmptyGroup ==
    /\ \A k \in DOMAIN urlStatuses : urlStatuses[k] # <<>> /\ k \in IncludedCodes
    /\ mpc = "done" =>
          /\ \A i \in 1..Len(report) :
                IsHeaderLine(i) =>
                    /\ i + 2 <= Len(report)
                    /\ report[i + 1] = BlankLine
                    /\ IsOutcomeLine(i + 2)
                    /\ \E t \in Tasks :
                          /\ rets[t][1] = report[i][2]
                          /\ rets[t][3]
                          /\ report[i + 2] = ResultLine(Result(t[1], t[2], rets[t][2]))
          /\ Range(HeaderCodes(report)) = IncludedCodes

\* a report with the single group 200 was written in a run in which a 404
\* response was filtered out and a probe failed
C38_Witness ==
    /\ mpc = "done"
    /\ HeaderCodes(report) = <<200>>
    /\ \E t \in Tasks : Answered(t) /\ responder[t].status = 404 /\ ~rets[t][3]
    /\ \E t \in Tasks : Failing(t) /\ Returned(t)

(* --------------------------- the output file -------------------------- *)

\* C39: os.Create is called only after wg.Wait() has returned: when the file
\* is created, or cannot be created, every worker has ended and every pair
\* has been probed, its request sent if it could be built; when the file
\* cannot be created the run ends there, and nothing of the result map is
\* written
C39_FileCreatedAfterJoin ==
    /\ (ENABLED OsCreate \/ ENABLED OsCreateFails \/ mpc \in {"write", "done", "failed"}) =>
          /\ \A u \in urlsMap : wpc[u] = "exited"
          /\ wg = 0
          /\ \A t \in Tasks :
                /\ probes[t] = 1
                /\ Returned(t)
                /\ sent[t] = (IF responder[t].kind = "reqErr" THEN 0 ELSE 1)
    /\ mpc = "failed" => (report = <<>> /\ ~ENABLED Next)

\* the file could not be created after two workers had recorded results:
\* the run has ended and the results are in no report
C39_Witness ==
    /\ mpc = "failed"
    /\ Len(launched) = 2
    /\ urlStatuses # <<>>
    /\ \E t \in Tasks : Entries(t) # {} /\ sent[t] = 1
    /\ report = <<>>

====
